---- MODULE Spec2Model ----
(***************************************************************************)
(* Model of the Hono server of src/src/index.tsx (with the pricing routes  *)
(* that only the program text in src/README.md defines): the route         *)
(* handlers, the data-backend client supabaseRequest, and the external     *)
(* row store the handlers talk to.  Every handler is cut at its awaits:    *)
(* one action per outbound call, so that concurrent requests interleave    *)
(* exactly where the code can be interleaved.                              *)
(***************************************************************************)
EXTENDS Integers, Sequences, FiniteSets, TLC

VARIABLES
    store,      \* the external row store: rows and id sequences per table
    req,        \* one record per request slot: the handler's position and locals
    shadow,     \* the last handler step replayed on the same request without its token
    changed,    \* per username: <<old, new>> of the last successful password change
    started,    \* number of requests received so far
    panel,      \* the pricing form of the admin panel and the page that shows a plan
    env,        \* the bindings of the process: SUPABASE_URL and SUPABASE_ANON_KEY
    wire,       \* the calls the data-backend client made, each with how it ended
    admin,      \* the admin page in one browser tab, with the localStorage of its origin
    home        \* the public page in one browser tab: its lists, slider and contact form

vars == <<store, req, shadow, changed, started, panel, env, wire, admin, home>>

\* the state of the server's requests, and the state outside of them
serverVars == <<store, req, shadow, changed, started>>
clientVars == <<panel, env, wire, admin, home>>
\* everything outside the requests but the admin page, but the public page
besideAdmin == <<panel, env, wire, home>>
besideHome == <<panel, env, wire, admin>>

(***************************************************************************)
(* Bounds of the model.                                                    *)
(***************************************************************************)
MaxStarted == 2     \* requests received in one behaviour
MaxText == 4        \* characters typed into the features box
MaxCalls == 3       \* calls the data-backend client makes on its own
MaxSent == 3        \* requests one page sends in one behaviour
MaxRows == 3        \* settings rows of an upstream answer, taken on its own

\* request slots: at most two requests are in flight at the same time
Slots == {1, 2}

(***************************************************************************)
(* Values.  Undefined stands for a field that is absent from a JSON body   *)
(* (destructuring gives undefined, JSON.stringify drops the key).          *)
(***************************************************************************)
Undefined == "undefined"
Usernames == {"Drishti", "guest"}
Passwords == {"p1", "p2"}
Keys == {"site_name", "phone"}
Values == {"v1", "v2"}
Times == {1, 2}
NoToken == <<>>
Tokens == {NoToken, <<"base64", "Drishti", ":", 1>>}

Tables == {"admin_users", "site_settings", "hero_slides", "social_links",
           "contact_submissions", "gallery_images", "pricing_plans"}

\* resource segment of the URL -> table
TableOf(resource) ==
    CASE resource = "slides" -> "hero_slides"
      [] resource = "social-links" -> "social_links"
      [] resource = "gallery" -> "gallery_images"
      [] resource = "pricing" -> "pricing_plans"
      [] resource = "contact" -> "contact_submissions"

\* list endpoints none of which asks for an order
OrderOfNone(resource) == "none"

\* the order= clause each list endpoint sends
OrderOf(resource) ==
    CASE resource = "slides" -> "order_num.asc"
      [] resource = "social-links" -> "none"
      [] resource = "gallery" -> "order_num.asc"
      [] resource = "pricing" -> "order_num.asc"
      [] resource = "contact" -> "created_at.desc"

(***************************************************************************)
(* The row store (PostgREST over the schema of README.md).                 *)
(***************************************************************************)
\* columns with a UNIQUE constraint
UniqueCols(table) ==
    CASE table = "admin_users" -> {"username"}
      [] table = "site_settings" -> {"key"}
      [] OTHER -> {}

\* columns declared NOT NULL without a default
RequiredCols(table) ==
    CASE table = "admin_users" -> {"username", "password"}
      [] table = "site_settings" -> {"key"}
      [] table = "contact_submissions" -> {"name", "phone"}
      [] OTHER -> {"title"}

\* the other columns, with the value an insert gives them when the body has none
DefaultCols(table) ==
    CASE table = "admin_users" -> [x \in {} |-> 0]
      [] table = "site_settings" -> [value |-> "null"]
      [] table = "contact_submissions" -> [shift |-> "null", message |-> "null"]
      [] table = "pricing_plans" -> [order_num |-> 1, features |-> [type |-> "null", val |-> <<>>]]
      [] OTHER -> [order_num |-> 1]

Columns(table) == RequiredCols(table) \cup DOMAIN DefaultCols(table)

\* JSON.stringify of an object: keys whose value is undefined are dropped
JSONstringify(obj) ==
    [f \in {g \in DOMAIN obj : obj[g] # Undefined} |-> obj[f]]

NoFilter == [col |-> "none", val |-> "none"]

Matches(row, filter) ==
    \/ filter.col = "none"
    \/ row[filter.col] = filter.val

RECURSIVE SelectSeq2(_, _)
\* the rows of a sequence that match a filter, in order
SelectSeq2(rows, filter) ==
    IF rows = <<>> THEN <<>>
    ELSE IF Matches(Head(rows), filter)
         THEN <<Head(rows)>> \o SelectSeq2(Tail(rows), filter)
         ELSE SelectSeq2(Tail(rows), filter)

RECURSIVE InsertSorted(_, _, _)
\* insert a row into a sequence sorted ascending by column col, after its equals
InsertSorted(row, sorted, col) ==
    IF sorted = <<>> THEN <<row>>
    ELSE IF row[col] < Head(sorted)[col]
         THEN <<row>> \o sorted
         ELSE <<Head(sorted)>> \o InsertSorted(row, Tail(sorted), col)

RECURSIVE SortAsc(_, _)
SortAsc(rows, col) ==
    IF rows = <<>> THEN <<>>
    ELSE InsertSorted(rows[Len(rows)], SortAsc(SubSeq(rows, 1, Len(rows) - 1), col), col)

Reverse(s) == [i \in 1..Len(s) |-> s[Len(s) + 1 - i]]

\* the order= clause of a GET
Ordered(rows, order) ==
    CASE order = "order_num.asc" -> SortAsc(rows, "order_num")
      [] order = "created_at.desc" -> Reverse(SortAsc(rows, "created_at"))
      [] OTHER -> rows

\* a row with the columns of a PATCH body written over it
Patched(row, body) ==
    [c \in DOMAIN row |-> IF c \in DOMAIN body THEN body[c] ELSE row[c]]

\* the row an insert builds: generated id (and timestamp), defaults, then the body
NewRow(table, body, id) ==
    LET gen == IF table = "contact_submissions"
               THEN [id |-> id, created_at |-> id]
               ELSE [id |-> id]
        defs == DefaultCols(table)
    IN [c \in DOMAIN gen \cup Columns(table) |->
           IF c \in DOMAIN gen THEN gen[c]
           ELSE IF c \in DOMAIN body THEN body[c]
           ELSE defs[c]]

\* an HTTP response of the store
Response(status, hasBody, body, text) ==
    [status |-> status, hasBody |-> hasBody, body |-> body, text |-> text]

\* One call handled by the store.  call = [method, table, filter, order, body,
\* prefer]; the result is the HTTP response and the store after the call.
Upstream(st, call) ==
    LET t == call.table
        rows == st.rows[t]
    IN
    CASE call.method = "GET" ->
           [res |-> Response(200, TRUE, Ordered(SelectSeq2(rows, call.filter), call.order), "rows"),
            st |-> st]
      [] call.method = "POST" ->
           LET id == st.seq[t]
               burnt == [st EXCEPT !.seq[t] = id + 1]
               row == NewRow(t, call.body, id)
           IN IF \E c \in DOMAIN call.body : c \notin Columns(t)
              THEN [res |-> Response(400, TRUE, <<>>, "unknown column"), st |-> st]
              ELSE IF \E c \in RequiredCols(t) : c \notin DOMAIN call.body
              THEN [res |-> Response(400, TRUE, <<>>, "null value in column"), st |-> burnt]
              ELSE IF \E c \in UniqueCols(t) : \E i \in 1..Len(rows) : rows[i][c] = row[c]
              THEN [res |-> Response(409, TRUE, <<>>, "duplicate key value"), st |-> burnt]
              ELSE [res |-> Response(201, TRUE, <<row>>, "rows"),
                    st |-> [burnt EXCEPT !.rows[t] = Append(rows, row)]]
      [] call.method = "PATCH" ->
           LET new == [i \in 1..Len(rows) |->
                          IF Matches(rows[i], call.filter)
                          THEN Patched(rows[i], call.body) ELSE rows[i]]
               hit == SelectSeq2(rows, call.filter)
           IN IF \E c \in DOMAIN call.body : c \notin Columns(t)
              THEN [res |-> Response(400, TRUE, <<>>, "unknown column"), st |-> st]
              ELSE IF call.prefer = "return=minimal"
              THEN [res |-> Response(204, FALSE, <<>>, ""), st |-> [st EXCEPT !.rows[t] = new]]
              ELSE [res |-> Response(200, TRUE,
                                     [i \in 1..Len(hit) |-> Patched(hit[i], call.body)],
                                     "rows"),
                    st |-> [st EXCEPT !.rows[t] = new]]
      [] call.method = "DELETE" ->
           [res |-> Response(200, TRUE, SelectSeq2(rows, call.filter), "rows"),
            st |-> [st EXCEPT !.rows[t] =
                       SelectSeq(rows, LAMBDA row : ~Matches(row, call.filter))]]

(***************************************************************************)
(* Data-backend client.                                                    *)
(***************************************************************************)
Faults == {"none", "http"}

\* an outbound call: endpoint (table, filter, order) and options (method, body,
\* Prefer header)
Call(method, table, filter, order, body, prefer) ==
    [method |-> method, table |-> table, filter |-> filter, order |-> order,
     body |-> body, prefer |-> prefer]

NoBody == [x \in {} |-> 0]

\* the bindings a process can be started with: each one set or absent
Envs == [SUPABASE_URL : {"https://project.supabase.co", Undefined},
         SUPABASE_ANON_KEY : {"anon-key", Undefined}]

Configured == [SUPABASE_URL |-> "https://project.supabase.co", SUPABASE_ANON_KEY |-> "anon-key"]

\* `${env.SUPABASE_URL}/rest/v1/${endpoint}`: an absent binding is spelled out
\* as the text undefined
UrlOf(e, call) == <<e.SUPABASE_URL, "/rest/v1/", call.table>>

\* the apikey, Authorization and Prefer headers of a call
HeadersOf(e, call) ==
    [apikey |-> e.SUPABASE_ANON_KEY, Authorization |-> <<"Bearer ", e.SUPABASE_ANON_KEY>>,
     Prefer |-> call.prefer]

\* the store behind its gateway: a call without the project's key is refused
Gateway(st, call, headers) ==
    IF headers.apikey = Undefined
    THEN [res |-> Response(401, TRUE, <<>>, "Invalid API key"), st |-> st]
    ELSE Upstream(st, call)

\* fetch(url, ...): rejects when the url is not an absolute one (no response:
\* status 0); otherwise the store handles the call and answers, or it is
\* unavailable and answers with a non-success status, nothing written
Fetch(e, st, call, fault) ==
    IF UrlOf(e, call)[1] = Undefined
    THEN [res |-> Response(0, FALSE, <<>>, "Invalid URL"), st |-> st]
    ELSE IF fault = "http"
    THEN [res |-> Response(503, TRUE, <<>>, "unavailable"), st |-> st]
    ELSE Gateway(st, call, HeadersOf(e, call))

\* the fetch was rejected: there is no response
FetchRejected(f) == f.res.status = 0

\* res.ok
Ok(status) == status >= 200 /\ status <= 299

\* a client that hands the body of any response back
ReceivedLenient(f) ==
    [thrown |-> FetchRejected(f), status |-> f.res.status, message |-> <<>>,
     value |-> f.res.body, st |-> f.st]

\* supabaseRequest from the end of the fetch on: throws unless the status is a
\* success and the body parses as JSON; otherwise returns the parsed body
Received(f) ==
    IF FetchRejected(f)
    THEN [thrown |-> TRUE, status |-> 0, message |-> <<f.res.text>>,
          value |-> <<>>, st |-> f.st]
    ELSE IF ~Ok(f.res.status)
    THEN [thrown |-> TRUE, status |-> f.res.status,
          message |-> <<"Supabase error: ", f.res.status, " - ", f.res.text>>,
          value |-> <<>>, st |-> f.st]
    ELSE IF ~f.res.hasBody
    THEN [thrown |-> TRUE, status |-> f.res.status,
          message |-> <<"Unexpected end of JSON input">>,
          value |-> <<>>, st |-> f.st]
    ELSE [thrown |-> FALSE, status |-> f.res.status, message |-> <<>>,
          value |-> f.res.body, st |-> f.st]

\* supabaseRequest(env, endpoint, options)
supabaseRequestWith(e, st, call, fault) == Received(Fetch(e, st, call, fault))

\* the client as the handlers call it: with the bindings of the process (c.env)
supabaseRequest(st, call, fault) == supabaseRequestWith(env, st, call, fault)

(***************************************************************************)
(* Requests.  A slot holds one request from its arrival to its response:   *)
(* what arrived (route, resource, id, key, body, token), where the handler   *)
(* stands (pc), its locals (i, admins), and the response.  calls, alone    *)
(* and pre record the outbound calls issued so far, whether the request    *)
(* ran with no other request in flight, and the rows at its arrival.       *)
(***************************************************************************)
NoResp == [status |-> 0, kind |-> "none", data |-> <<>>]

NewReq(route, resource, id, key, body, token, pc) ==
    [route |-> route, resource |-> resource, id |-> id, key |-> key, body |-> body,
     token |-> token, pc |-> pc, i |-> 1, admins |-> <<>>, resp |-> NoResp,
     calls |-> <<>>, alone |-> TRUE, pre |-> <<>>]

Idle == NewReq("none", "none", 0, "none", <<>>, NoToken, "idle")

InFlight(r) == r.pc \notin {"idle", "done"}

\* c.json(data, status)
Respond(r, status, kind, data) ==
    [r EXCEPT !.pc = "done", !.resp = [status |-> status, kind |-> kind, data |-> data]]

\* remember an outbound call and how it ended
Issued(r, call, out) ==
    [r EXCEPT !.calls = Append(@, [method |-> call.method, table |-> call.table,
                                   key |-> IF "key" \in DOMAIN call.body
                                           THEN call.body.key
                                           ELSE IF call.filter.col = "key"
                                           THEN call.filter.val
                                           ELSE "none",
                                   thrown |-> out.thrown, status |-> out.status])]

Result(r, st) == [r |-> r, st |-> st]

\* btoa(`${username}:${now}`)
btoa(username, now) == <<"base64", username, ":", now>>

(***************************************************************************)
(* Admin auth.                                                             *)
(***************************************************************************)
AdminByUsername(username) ==
    Call("GET", "admin_users", [col |-> "username", val |-> username], "none",
         NoBody, "return=representation")

\* a login that compares no password
LoginAnyPassword(r, st, fault, now) ==
    LET call == AdminByUsername(r.body.username)
        out == supabaseRequest(st, call, fault)
        r1 == Issued(r, call, out)
        admins == out.value
    IN IF out.thrown
       THEN Result(Respond(r1, 500, "fail", [success |-> FALSE, message |-> out.message]), out.st)
       ELSE IF Len(admins) = 0
       THEN Result(Respond(r1, 401, "fail",
                           [success |-> FALSE, message |-> <<"Invalid credentials">>]), out.st)
       ELSE Result(Respond(r1, 200, "login",
                           [success |-> TRUE, token |-> btoa(r.body.username, now),
                            admin |-> [id |-> admins[1].id, username |-> admins[1].username]]),
                   out.st)

\* POST /api/admin/login
Login(r, st, fault, now) ==
    LET call == AdminByUsername(r.body.username)
        out == supabaseRequest(st, call, fault)
        r1 == Issued(r, call, out)
        admins == out.value
    IN IF out.thrown
       THEN Result(Respond(r1, 500, "fail", [success |-> FALSE, message |-> out.message]), out.st)
       ELSE IF Len(admins) = 0
       THEN Result(Respond(r1, 401, "fail",
                           [success |-> FALSE, message |-> <<"Invalid credentials">>]), out.st)
       ELSE IF admins[1].password # r.body.password
       THEN Result(Respond(r1, 401, "fail",
                           [success |-> FALSE, message |-> <<"Invalid credentials">>]), out.st)
       ELSE Result(Respond(r1, 200, "login",
                           [success |-> TRUE, token |-> btoa(r.body.username, now),
                            admin |-> [id |-> admins[1].id, username |-> admins[1].username]]),
                   out.st)

\* a change-password that goes on to the PATCH whenever the user exists
ChangePasswordUnchecked(r, st, fault, now) ==
    LET call == AdminByUsername(r.body.username)
        out == supabaseRequest(st, call, fault)
        r1 == Issued(r, call, out)
        admins == out.value
    IN IF out.thrown
       THEN Result(Respond(r1, 500, "fail", [success |-> FALSE, message |-> out.message]), out.st)
       ELSE IF Len(admins) = 0
       THEN Result(Respond(r1, 401, "fail",
                           [success |-> FALSE, message |-> <<"Invalid current password">>]), out.st)
       ELSE Result([r1 EXCEPT !.admins = admins, !.pc = "patch"], out.st)

\* POST /api/admin/change-password, up to the answer of the lookup
ChangePasswordLookup(r, st, fault, now) ==
    LET call == AdminByUsername(r.body.username)
        out == supabaseRequest(st, call, fault)
        r1 == Issued(r, call, out)
        admins == out.value
    IN IF out.thrown
       THEN Result(Respond(r1, 500, "fail", [success |-> FALSE, message |-> out.message]), out.st)
       ELSE IF Len(admins) = 0 \/ admins[1].password # r.body.currentPassword
       THEN Result(Respond(r1, 401, "fail",
                           [success |-> FALSE, message |-> <<"Invalid current password">>]), out.st)
       ELSE Result([r1 EXCEPT !.admins = admins, !.pc = "patch"], out.st)

\* POST /api/admin/change-password, from the PATCH on
ChangePasswordPatch(r, st, fault, now) ==
    LET call == Call("PATCH", "admin_users", [col |-> "id", val |-> r.admins[1].id], "none",
                     JSONstringify([password |-> r.body.newPassword]), "return=representation")
        out == supabaseRequest(st, call, fault)
        r1 == Issued(r, call, out)
    IN IF out.thrown
       THEN Result(Respond(r1, 500, "fail", [success |-> FALSE, message |-> out.message]), out.st)
       ELSE Result(Respond(r1, 200, "success",
                           [success |-> TRUE, message |-> <<"Password updated successfully">>]),
                   out.st)

(***************************************************************************)
(* Site settings.                                                          *)
(***************************************************************************)
\* a fold in which the first row of a key stays
settingsObjFirst(settings) ==
    [k \in {settings[j].key : j \in 1..Len(settings)} |->
        LET first == CHOOSE j \in 1..Len(settings) :
                         /\ settings[j].key = k
                         /\ \A m \in 1..Len(settings) : settings[m].key = k => m >= j
        IN settings[first].value]

\* settings.forEach(s => settingsObj[s.key] = s.value): later rows overwrite
settingsObj(settings) ==
    [k \in {settings[j].key : j \in 1..Len(settings)} |->
        LET last == CHOOSE j \in 1..Len(settings) :
                        /\ settings[j].key = k
                        /\ \A m \in 1..Len(settings) : settings[m].key = k => m <= j
        IN settings[last].value]

\* a settings read that answers an empty object when the call fails
SettingsGetFailSoft(r, st, fault, now) ==
    LET call == Call("GET", "site_settings", NoFilter, "none", NoBody, "return=representation")
        out == supabaseRequest(st, call, fault)
        r1 == Issued(r, call, out)
    IN IF out.thrown
       THEN Result(Respond(r1, 200, "object", settingsObj(<<>>)), out.st)
       ELSE Result(Respond(r1, 200, "object", settingsObj(out.value)), out.st)

\* GET /api/settings
SettingsGet(r, st, fault, now) ==
    LET call == Call("GET", "site_settings", NoFilter, "none", NoBody, "return=representation")
        out == supabaseRequest(st, call, fault)
        r1 == Issued(r, call, out)
    IN IF out.thrown
       THEN Result(Respond(r1, 500, "error", [error |-> out.message]), out.st)
       ELSE Result(Respond(r1, 200, "object", settingsObj(out.value)), out.st)

\* the for loop of POST /api/settings after the write for entry r.i is done:
\* the next entry, or the answer
SettingsNext(r) ==
    IF r.i >= Len(r.body)
    THEN Respond(r, 200, "success", [success |-> TRUE])
    ELSE [r EXCEPT !.i = r.i + 1, !.pc = "patch"]

\* a PATCH step that sends the PATCH of the next entry along with its own
SettingsPostPatchFanOut(r, st, fault, now) ==
    LET PatchOf(j) == Call("PATCH", "site_settings", [col |-> "key", val |-> r.body[j][1]],
                           "none", JSONstringify([value |-> r.body[j][2]]), "return=minimal")
        out == supabaseRequest(st, PatchOf(r.i), fault)
        r1 == Issued(r, PatchOf(r.i), out)
        more == r.i < Len(r.body)
        out2 == IF more THEN supabaseRequest(out.st, PatchOf(r.i + 1), fault) ELSE out
        r2 == IF more THEN Issued(r1, PatchOf(r.i + 1), out2) ELSE r1
    IN IF out.thrown
       THEN Result([r2 EXCEPT !.pc = "insert"], out2.st)
       ELSE Result(SettingsNext(r2), out2.st)

\* POST /api/settings: the PATCH for entry r.i of Object.entries(updates)
SettingsPostPatch(r, st, fault, now) ==
    LET key == r.body[r.i][1]
        value == r.body[r.i][2]
        call == Call("PATCH", "site_settings", [col |-> "key", val |-> key], "none",
                     JSONstringify([value |-> value]), "return=minimal")
        out == supabaseRequest(st, call, fault)
        r1 == Issued(r, call, out)
    IN IF out.thrown
       THEN Result([r1 EXCEPT !.pc = "insert"], out.st)
       ELSE Result(SettingsNext(r1), out.st)

\* an insert step that goes on with the next entry when its insert fails
SettingsPostInsertSkipping(r, st, fault, now) ==
    LET key == r.body[r.i][1]
        value == r.body[r.i][2]
        call == Call("POST", "site_settings", NoFilter, "none",
                     JSONstringify([key |-> key, value |-> value]), "return=representation")
        out == supabaseRequest(st, call, fault)
        r1 == Issued(r, call, out)
    IN Result(SettingsNext(r1), out.st)

\* an insert step that looks again and skips the insert when the key is there
SettingsPostInsertRechecked(r, st, fault, now) ==
    LET key == r.body[r.i][1]
        value == r.body[r.i][2]
        call == Call("POST", "site_settings", NoFilter, "none",
                     JSONstringify([key |-> key, value |-> value]), "return=representation")
        out == supabaseRequest(st, call, fault)
        r1 == Issued(r, call, out)
    IN IF Len(SelectSeq2(st.rows["site_settings"], [col |-> "key", val |-> key])) > 0
       THEN Result(SettingsNext(r), st)
       ELSE IF out.thrown
       THEN Result(Respond(r1, 500, "fail", [success |-> FALSE, message |-> out.message]), out.st)
       ELSE Result(SettingsNext(r1), out.st)

\* POST /api/settings: the insert in the catch of the PATCH for entry r.i
SettingsPostInsert(r, st, fault, now) ==
    LET key == r.body[r.i][1]
        value == r.body[r.i][2]
        call == Call("POST", "site_settings", NoFilter, "none",
                     JSONstringify([key |-> key, value |-> value]), "return=representation")
        out == supabaseRequest(st, call, fault)
        r1 == Issued(r, call, out)
    IN IF out.thrown
       THEN Result(Respond(r1, 500, "fail", [success |-> FALSE, message |-> out.message]), out.st)
       ELSE Result(SettingsNext(r1), out.st)

\* PUT /api/settings/:key, up to the answer of the probe
SettingsPutProbe(r, st, fault, now) ==
    LET call == Call("GET", "site_settings", [col |-> "key", val |-> r.key], "none",
                     NoBody, "return=representation")
        out == supabaseRequest(st, call, fault)
        r1 == Issued(r, call, out)
        existing == out.value
    IN IF out.thrown
       THEN Result(Respond(r1, 500, "fail", [success |-> FALSE, message |-> out.message]), out.st)
       ELSE IF Len(existing) > 0
       THEN Result([r1 EXCEPT !.pc = "patch"], out.st)
       ELSE Result([r1 EXCEPT !.pc = "insert"], out.st)

\* PUT /api/settings/:key, the write chosen by the probe
SettingsPutWrite(r, st, fault, now) ==
    LET call == IF r.pc = "patch"
                THEN Call("PATCH", "site_settings", [col |-> "key", val |-> r.key], "none",
                          JSONstringify([value |-> r.body.value]), "return=representation")
                ELSE Call("POST", "site_settings", NoFilter, "none",
                          JSONstringify([key |-> r.key, value |-> r.body.value]),
                          "return=representation")
        out == supabaseRequest(st, call, fault)
        r1 == Issued(r, call, out)
    IN IF out.thrown
       THEN Result(Respond(r1, 500, "fail", [success |-> FALSE, message |-> out.message]), out.st)
       ELSE Result(Respond(r1, 200, "success", [success |-> TRUE]), out.st)

(***************************************************************************)
(* Slides, social links, gallery, pricing: the same four handlers each.    *)
(* The body they forward is JSON.stringify of the parsed JSON body, which  *)
(* has no undefined value to drop: the body itself.                        *)
(***************************************************************************)
\* a list that surfaces the failure of its call
ListRowsSurfacing(r, st, fault, now) ==
    LET call == Call("GET", TableOf(r.resource), NoFilter, OrderOf(r.resource), NoBody,
                     "return=representation")
        out == supabaseRequest(st, call, fault)
        r1 == Issued(r, call, out)
    IN IF out.thrown
       THEN Result(Respond(r1, 500, "error", [error |-> out.message]), out.st)
       ELSE Result(Respond(r1, 200, "rows", out.value), out.st)

\* GET /api/<resource>
ListRows(r, st, fault, now) ==
    LET call == Call("GET", TableOf(r.resource), NoFilter, OrderOf(r.resource), NoBody,
                     "return=representation")
        out == supabaseRequest(st, call, fault)
        r1 == Issued(r, call, out)
    IN IF out.thrown
       THEN Result(Respond(r1, 200, "rows", <<>>), out.st)
       ELSE Result(Respond(r1, 200, "rows", out.value), out.st)

\* a create in two calls: it counts the rows, then inserts its row at the end
CreateRowCounted(r, st, fault, now) ==
    LET t == TableOf(r.resource)
        count == Call("GET", t, NoFilter, "none", NoBody, "return=representation")
        counted == supabaseRequest(st, count, fault)
        call == Call("POST", t, NoFilter, "none",
                     [c \in DOMAIN r.body \cup {"order_num"} |->
                         IF c = "order_num" THEN Len(r.admins) + 1 ELSE r.body[c]],
                     "return=representation")
        out == supabaseRequest(st, call, fault)
    IN IF r.i = 1
       THEN IF counted.thrown
            THEN Result(Respond(Issued(r, count, counted), 500, "error",
                                [error |-> counted.message]), st)
            ELSE Result([Issued(r, count, counted) EXCEPT !.i = 2, !.admins = counted.value],
                        st)
       ELSE IF out.thrown
       THEN Result(Respond(Issued(r, call, out), 500, "error", [error |-> out.message]), out.st)
       ELSE Result(Respond(Issued(r, call, out), 200, "row", out.value[1]), out.st)

\* a create that answers with the whole array the store returned
CreateRowArray(r, st, fault, now) ==
    LET call == Call("POST", TableOf(r.resource), NoFilter, "none", r.body,
                     "return=representation")
        out == supabaseRequest(st, call, fault)
        r1 == Issued(r, call, out)
    IN IF out.thrown
       THEN Result(Respond(r1, 500, "error", [error |-> out.message]), out.st)
       ELSE Result(Respond(r1, 200, "rows", out.value), out.st)

\* POST /api/<resource>
CreateRow(r, st, fault, now) ==
    LET call == Call("POST", TableOf(r.resource), NoFilter, "none", r.body,
                     "return=representation")
        out == supabaseRequest(st, call, fault)
        r1 == Issued(r, call, out)
    IN IF out.thrown
       THEN Result(Respond(r1, 500, "error", [error |-> out.message]), out.st)
       ELSE Result(Respond(r1, 200, "row", out.value[1]), out.st)

\* an update that looks at the rows the PATCH returned and answers 404 for none
UpdateRowChecked(r, st, fault, now) ==
    LET call == Call("PATCH", TableOf(r.resource), [col |-> "id", val |-> r.id], "none",
                     r.body, "return=representation")
        out == supabaseRequest(st, call, fault)
        r1 == Issued(r, call, out)
    IN IF out.thrown
       THEN Result(Respond(r1, 500, "error", [error |-> out.message]), out.st)
       ELSE IF Len(out.value) = 0
       THEN Result(Respond(r1, 404, "error", [error |-> <<"Not found">>]), out.st)
       ELSE Result(Respond(r1, 200, "success", [success |-> TRUE]), out.st)

\* an update that inserts its body as a new row
UpdateRowInserting(r, st, fault, now) ==
    LET call == Call("POST", TableOf(r.resource), NoFilter, "none", r.body,
                     "return=representation")
        out == supabaseRequest(st, call, fault)
        r1 == Issued(r, call, out)
    IN IF out.thrown
       THEN Result(Respond(r1, 500, "error", [error |-> out.message]), out.st)
       ELSE Result(Respond(r1, 200, "success", [success |-> TRUE]), out.st)

\* an update that answers success whatever its call did
UpdateRowMasking(r, st, fault, now) ==
    LET call == Call("PATCH", TableOf(r.resource), [col |-> "id", val |-> r.id], "none",
                     r.body, "return=representation")
        out == supabaseRequest(st, call, fault)
        r1 == Issued(r, call, out)
    IN Result(Respond(r1, 200, "success", [success |-> TRUE]), out.st)

\* PUT /api/<resource>/:id
UpdateRow(r, st, fault, now) ==
    LET call == Call("PATCH", TableOf(r.resource), [col |-> "id", val |-> r.id], "none",
                     r.body, "return=representation")
        out == supabaseRequest(st, call, fault)
        r1 == Issued(r, call, out)
    IN IF out.thrown
       THEN Result(Respond(r1, 500, "error", [error |-> out.message]), out.st)
       ELSE Result(Respond(r1, 200, "success", [success |-> TRUE]), out.st)

\* a delete that the gallery route sends to the contact table
DeleteRowOfContact(r, st, fault, now) ==
    LET call == Call("DELETE",
                     IF r.resource = "gallery" THEN "contact_submissions"
                     ELSE TableOf(r.resource),
                     [col |-> "id", val |-> r.id], "none", NoBody, "return=representation")
        out == supabaseRequest(st, call, fault)
        r1 == Issued(r, call, out)
    IN IF out.thrown
       THEN Result(Respond(r1, 500, "error", [error |-> out.message]), out.st)
       ELSE Result(Respond(r1, 200, "success", [success |-> TRUE]), out.st)

\* a delete with no id filter
DeleteRowUnfiltered(r, st, fault, now) ==
    LET call == Call("DELETE", TableOf(r.resource), NoFilter, "none",
                     NoBody, "return=representation")
        out == supabaseRequest(st, call, fault)
        r1 == Issued(r, call, out)
    IN IF out.thrown
       THEN Result(Respond(r1, 500, "error", [error |-> out.message]), out.st)
       ELSE Result(Respond(r1, 200, "success", [success |-> TRUE]), out.st)

\* a delete that turns away a request with no token
DeleteRowGuarded(r, st, fault, now) ==
    LET call == Call("DELETE", TableOf(r.resource), [col |-> "id", val |-> r.id], "none",
                     NoBody, "return=representation")
        out == supabaseRequest(st, call, fault)
        r1 == Issued(r, call, out)
    IN IF r.token = NoToken
       THEN Result(Respond(r, 401, "error", [error |-> <<"Unauthorized">>]), st)
       ELSE IF out.thrown
       THEN Result(Respond(r1, 500, "error", [error |-> out.message]), out.st)
       ELSE Result(Respond(r1, 200, "success", [success |-> TRUE]), out.st)

\* DELETE /api/<resource>/:id
DeleteRow(r, st, fault, now) ==
    LET call == Call("DELETE", TableOf(r.resource), [col |-> "id", val |-> r.id], "none",
                     NoBody, "return=representation")
        out == supabaseRequest(st, call, fault)
        r1 == Issued(r, call, out)
    IN IF out.thrown
       THEN Result(Respond(r1, 500, "error", [error |-> out.message]), out.st)
       ELSE Result(Respond(r1, 200, "success", [success |-> TRUE]), out.st)

(***************************************************************************)
(* Contact form submissions.                                               *)
(***************************************************************************)
\* a message passed on as it came
OrEmptyKept(v) == v

\* data.message || ''
OrEmpty(v) == IF v = Undefined \/ v = "" THEN "" ELSE v

\* POST /api/contact
ContactPost(r, st, fault, now) ==
    LET data == r.body
        call == Call("POST", "contact_submissions", NoFilter, "none",
                     JSONstringify([name |-> data.name, phone |-> data.phone,
                                    shift |-> data.shift, message |-> OrEmpty(data.message)]),
                     "return=representation")
        out == supabaseRequest(st, call, fault)
        r1 == Issued(r, call, out)
    IN IF out.thrown
       THEN Result(Respond(r1, 500, "fail", [success |-> FALSE, message |-> out.message]), out.st)
       ELSE Result(Respond(r1, 200, "success",
                           [success |-> TRUE, message |-> <<"thank you">>]), out.st)

(***************************************************************************)
(* The requests a client can send.                                         *)
(***************************************************************************)
LoginBodies == [username : Usernames, password : Passwords \cup {Undefined}]

ChangePasswordBodies ==
    [username : Usernames, currentPassword : Passwords \cup {Undefined},
     newPassword : Passwords \cup {Undefined}]

\* Object.entries of a settings object: pairs with distinct keys, in the order
\* the keys were written
SettingsBodies ==
    {<<>>}
    \cup {<<<<k, v>>>> : k \in Keys, v \in Values}
    \cup {<<<<"site_name", "v2">>, <<"phone", "v2">>>>,
          <<<<"phone", "v1">>, <<"site_name", "v1">>>>}

\* rows of the content tables as the admin panel sends them: all columns, or some
ContentBodies ==
    {[title |-> "a", order_num |-> 2], [title |-> "b"], [order_num |-> 1]}

ContactBodies ==
    {[name |-> "n", phone |-> "ph", shift |-> "s", message |-> "m"],
     [name |-> "n", phone |-> "ph", shift |-> "s", message |-> Undefined, extra |-> "x"],
     [name |-> Undefined, phone |-> "ph", shift |-> "s", message |-> ""]}

ContentResources == {"slides", "social-links", "gallery", "pricing"}
ListResources == ContentResources \cup {"contact"}
Ids == 1..2

(***************************************************************************)
(* The features of a pricing plan, from the features box of the admin      *)
(* panel to the public page.  Text is a sequence of characters.            *)
(***************************************************************************)
Chars == {"a", " ", ",", "\n", "\"", "\\"}

Texts == UNION {[1..n -> Chars] : n \in 0..MaxText}

RECURSIVE Split(_)
\* text.split('\n')
Split(text) ==
    IF \A i \in 1..Len(text) : text[i] # "\n"
    THEN <<text>>
    ELSE LET k == CHOOSE i \in 1..Len(text) :
                     text[i] = "\n" /\ \A j \in 1..(i - 1) : text[j] # "\n"
         IN <<SubSeq(text, 1, k - 1)>> \o Split(SubSeq(text, k + 1, Len(text)))

\* f.trim() is not the empty string
NonBlank(f) == \E i \in 1..Len(f) : f[i] \notin {" ", "\n"}

\* the lines of the features box that are not blank
FeaturesOf(text) == SelectSeq(Split(text), NonBlank)

\* a string with its quotes and backslashes left as they are
EscapedRaw(str) == str

RECURSIVE Escaped(_)
\* the characters of a string between the quotes of its JSON text
Escaped(str) ==
    IF str = <<>> THEN <<>>
    ELSE (CASE Head(str) = "\"" -> <<"\\", "\"">>
            [] Head(str) = "\\" -> <<"\\", "\\">>
            [] Head(str) = "\n" -> <<"\\", "n">>
            [] OTHER -> <<Head(str)>>) \o Escaped(Tail(str))

RECURSIVE Joined(_)
\* the JSON texts of the strings of a list, separated by commas
Joined(list) ==
    IF list = <<>> THEN <<>>
    ELSE <<"\"">> \o Escaped(Head(list)) \o <<"\"">>
         \o (IF Len(list) > 1 THEN <<",">> ELSE <<>>) \o Joined(Tail(list))

\* JSON.stringify of an array of strings
JSONstringifyArray(list) == <<"[">> \o Joined(list) \o <<"]">>

SyntaxError == [ok |-> FALSE, val |-> <<>>, next |-> 0]

RECURSIVE ParseString(_, _, _)
\* JSON.parse inside a string, chars[p] being the character to read next
ParseString(chars, p, acc) ==
    IF p > Len(chars) THEN SyntaxError
    ELSE IF chars[p] = "\"" THEN [ok |-> TRUE, val |-> acc, next |-> p + 1]
    ELSE IF chars[p] = "\n" THEN SyntaxError
    ELSE IF chars[p] # "\\" THEN ParseString(chars, p + 1, Append(acc, chars[p]))
    ELSE IF p + 1 > Len(chars) THEN SyntaxError
    ELSE IF chars[p + 1] \in {"\"", "\\"}
    THEN ParseString(chars, p + 2, Append(acc, chars[p + 1]))
    ELSE IF chars[p + 1] = "n" THEN ParseString(chars, p + 2, Append(acc, "\n"))
    ELSE SyntaxError

RECURSIVE ParseItems(_, _, _)
\* JSON.parse inside an array, chars[p] being where the next string must open
ParseItems(chars, p, acc) ==
    IF p > Len(chars) \/ chars[p] # "\"" THEN SyntaxError
    ELSE LET str == ParseString(chars, p + 1, <<>>)
         IN IF ~str.ok \/ str.next > Len(chars) THEN SyntaxError
            ELSE IF chars[str.next] = ","
            THEN ParseItems(chars, str.next + 1, Append(acc, str.val))
            ELSE IF chars[str.next] = "]" /\ str.next = Len(chars)
            THEN [ok |-> TRUE, val |-> Append(acc, str.val), next |-> str.next + 1]
            ELSE SyntaxError

\* JSON.parse of the text of an array of strings
JSONparse(chars) ==
    IF Len(chars) < 2 \/ chars[1] # "[" THEN SyntaxError
    ELSE IF chars = <<"[", "]">> THEN [ok |-> TRUE, val |-> <<>>, next |-> 3]
    ELSE ParseItems(chars, 2, <<>>)

\* typeof p.features === 'string' ? JSON.parse(p.features) : p.features
DecodeFeatures(v) ==
    IF v.type = "string"
    THEN [ok |-> JSONparse(v.val).ok, val |-> JSONparse(v.val).val]
    ELSE [ok |-> TRUE, val |-> v.val]

\* what the store gives back for the features column: the JSON text as it was
\* sent when the column holds text, the array the text stands for when it
\* holds JSON
ColumnTypes == {"text", "jsonb"}

Returned(column, chars) ==
    IF column = "text"
    THEN [type |-> "string", val |-> chars]
    ELSE [type |-> "array", val |-> JSONparse(chars).val]

NoPanel ==
    [phase |-> "idle", text |-> <<>>, features |-> <<>>,
     stored |-> [type |-> "string", val |-> <<>>], shown |-> [ok |-> TRUE, val |-> <<>>]]

\* the admin fills the features box
TypeFeatures ==
    /\ panel.phase = "idle"
    /\ \E text \in Texts : panel' = [panel EXCEPT !.phase = "typed", !.text = text]
    /\ UNCHANGED <<serverVars, env, wire, admin, home>>

\* savePricing: the lines of the box, encoded, go to the store and come back
\* from it on the next load
SavePricing ==
    /\ panel.phase = "typed"
    /\ \E column \in ColumnTypes :
          LET features == FeaturesOf(panel.text)
          IN panel' = [panel EXCEPT !.phase = "saved", !.features = features,
                                    !.stored = Returned(column, JSONstringifyArray(features))]
    /\ UNCHANGED <<serverVars, env, wire, admin, home>>

\* renderPricing / editPricing: the features of a loaded plan
RenderPricing ==
    /\ panel.phase = "saved"
    /\ panel' = [panel EXCEPT !.phase = "shown", !.shown = DecodeFeatures(panel.stored)]
    /\ UNCHANGED <<serverVars, env, wire, admin, home>>

NextPricing == TypeFeatures \/ SavePricing \/ RenderPricing

(***************************************************************************)
(* The admin page (GET /admin): its script, the elements it shows and      *)
(* hides, and the localStorage it reads and writes.  A handler that awaits *)
(* a fetch is cut there: one operator up to the fetch, one for the answer, *)
(* one for the catch block.  Each returns the page after it, and the       *)
(* request it sends, if any.                                               *)
(***************************************************************************)
\* localStorage.getItem of an item that is not there
Null == "null"

NoItems == [adminToken |-> Null, adminUser |-> Null]

NoToast == [message |-> "none", isError |-> FALSE]

NoFetch == [route |-> "none"]

\* showToast(message, isError = false)
showToast(a, message, isError) ==
    [a EXCEPT !.toast = [message |-> message, isError |-> isError]]

\* showDashboard(): the lists it loads are not part of the page's state here
showDashboard(a) == [a EXCEPT !.dashboard = TRUE]

\* the script from its first line to the end of the auth check, run on every
\* load of the page: event and loggedInAs remember the last handler that ran
\* and the username of the last login that succeeded, tick flips whenever a
\* handler runs
Script(items) ==
    [localStorage |-> items, authToken |-> items.adminToken,
     currentUser |-> items.adminUser, dashboard |-> FALSE, loginError |-> FALSE,
     toast |-> NoToast, pending |-> "none", slot |-> 0, username |-> Null,
     event |-> [name |-> "load"], tick |-> 0, loggedInAs |-> items.adminUser]

\* a page that shows the dashboard to everyone
AdminLoadedOpen(items) == showDashboard(Script(items))

\* if (authToken) showDashboard()
AdminLoaded(items) ==
    IF Script(items).authToken # Null THEN showDashboard(Script(items)) ELSE Script(items)

\* logout(): both items removed, then location.reload()
logout(a) ==
    [AdminLoaded([a.localStorage EXCEPT !.adminToken = Null, !.adminUser = Null])
        EXCEPT !.event = [name |-> "logout"]]

Handled(a, event) == [a EXCEPT !.event = event, !.tick = 1 - @]

Awaiting(a, op, event) == [Handled(a, event) EXCEPT !.pending = op]

Settled(a, how, status) ==
    [Handled(a, [name |-> a.pending, how |-> how, status |-> status])
        EXCEPT !.pending = "none", !.slot = 0]

\* data.success
Success(data) == "success" \in DOMAIN data /\ data.success = TRUE

\* loginForm submit, up to the fetch
loginFormSubmit(a, username, password) ==
    [page |-> [Awaiting(a, "login", [name |-> "loginForm"]) EXCEPT !.username = username],
     fetch |-> NewReq("POST /api/admin/login", "none", 0, "none",
                      [username |-> username, password |-> password], NoToken, "call")]

\* loginForm submit, from the answer on
loginFormAnswer(a, resp) ==
    LET a1 == Settled(a, "answered", resp.status)
    IN IF Success(resp.data)
       THEN showDashboard([a1 EXCEPT !.authToken = resp.data.token,
                                     !.currentUser = a.username,
                                     !.localStorage = [adminToken |-> resp.data.token,
                                                       adminUser |-> a.username],
                                     !.loggedInAs = a.username])
       ELSE [a1 EXCEPT !.loginError = TRUE]

\* loginForm submit, the catch block
loginFormCatch(a) == [Settled(a, "rejected", 0) EXCEPT !.loginError = TRUE]

\* settingsForm submit, up to the fetch
settingsFormSubmit(a, settings) ==
    [page |-> Awaiting(a, "settings", [name |-> "settingsForm"]),
     fetch |-> NewReq("POST /api/settings", "none", 0, "none", settings, NoToken, "patch")]

\* settingsForm submit, from the answer on: the answer is not looked at
settingsFormAnswer(a, resp) ==
    showToast(Settled(a, "answered", resp.status), "Settings saved successfully!", FALSE)

\* settingsForm submit, the catch block
settingsFormCatch(a) ==
    showToast(Settled(a, "rejected", 0), "Failed to save settings", TRUE)

\* the words of the toasts of saveSlide, saveGallery, saveSocial, savePricing
SavedToast(resource) ==
    CASE resource = "slides" -> "Slide saved!"
      [] resource = "gallery" -> "Image saved!"
      [] resource = "social-links" -> "Social link saved!"
      [] resource = "pricing" -> "Plan saved!"

SaveFailedToast(resource) ==
    CASE resource = "slides" -> "Failed to save slide"
      [] resource = "gallery" -> "Failed to save image"
      [] resource = "social-links" -> "Failed to save"
      [] resource = "pricing" -> "Failed"

DeletedToast(resource) ==
    CASE resource = "slides" -> "Slide deleted!"
      [] resource = "gallery" -> "Image deleted!"
      [] resource = "social-links" -> "Deleted!"
      [] resource = "pricing" -> "Deleted!"

DeleteFailedToast(resource) ==
    IF resource = "pricing" THEN "Failed" ELSE "Failed to delete"

\* saveSlide and its like, up to the fetch: a PUT when the form holds an id
\* (id 0 is the empty id field), a POST otherwise
saveItem(a, resource, id, data) ==
    [page |-> Awaiting(a, "save", [name |-> "saveItem", resource |-> resource]),
     fetch |-> IF id # 0
               THEN NewReq("PUT /api/:resource/:id", resource, id, "none", data, NoToken, "call")
               ELSE NewReq("POST /api/:resource", resource, 0, "none", data, NoToken, "call")]

\* saveSlide and its like, from the answer on: the answer is not looked at
saveItemAnswer(a, resource, resp) ==
    showToast(Settled(a, "answered", resp.status), SavedToast(resource), FALSE)

saveItemCatch(a, resource) ==
    showToast(Settled(a, "rejected", 0), SaveFailedToast(resource), TRUE)

\* deleteSlide and its like, up to the fetch, once confirm() said yes
deleteItem(a, resource, id) ==
    [page |-> Awaiting(a, "delete", [name |-> "deleteItem", resource |-> resource]),
     fetch |-> NewReq("DELETE /api/:resource/:id", resource, id, "none", <<>>, NoToken, "call")]

deleteItemAnswer(a, resource, resp) ==
    showToast(Settled(a, "answered", resp.status), DeletedToast(resource), FALSE)

deleteItemCatch(a, resource) ==
    showToast(Settled(a, "rejected", 0), DeleteFailedToast(resource), TRUE)

\* a password form that sends whatever was typed
passwordFormSubmitUnchecked(a, currentPassword, newPassword, confirmPassword) ==
    [page |-> Awaiting(a, "password",
                       [name |-> "passwordForm", newPassword |-> newPassword,
                        confirmPassword |-> confirmPassword]),
     fetch |-> NewReq("POST /api/admin/change-password", "none", 0, "none",
                      [username |-> a.currentUser, currentPassword |-> currentPassword,
                       newPassword |-> newPassword], NoToken, "lookup")]

\* passwordForm submit, up to the fetch
passwordFormSubmit(a, currentPassword, newPassword, confirmPassword) ==
    LET event == [name |-> "passwordForm", newPassword |-> newPassword,
                  confirmPassword |-> confirmPassword]
    IN IF newPassword # confirmPassword
       THEN [page |-> showToast(Handled(a, event), "Passwords do not match!", TRUE),
             fetch |-> NoFetch]
       ELSE [page |-> Awaiting(a, "password", event),
             fetch |-> NewReq("POST /api/admin/change-password", "none", 0, "none",
                              [username |-> a.currentUser,
                               currentPassword |-> currentPassword,
                               newPassword |-> newPassword], NoToken, "lookup")]

\* passwordForm submit, from the answer on
passwordFormAnswer(a, resp) ==
    LET a1 == Settled(a, "answered", resp.status)
    IN IF Success(resp.data)
       THEN showToast(a1, "Password updated successfully!", FALSE)
       ELSE showToast(a1, IF "message" \in DOMAIN resp.data THEN resp.data.message
                          ELSE "Failed to update password", TRUE)

passwordFormCatch(a) == showToast(Settled(a, "rejected", 0), "Error updating password", TRUE)

(***************************************************************************)
(* The public page (GET /): the lists it loads when the document is ready, *)
(* the hero slider, and the contact form.                                  *)
(***************************************************************************)
HomeResources == {"slides", "gallery", "social-links", "pricing"}

\* the content baked into the script: 2 slides, 4 images, 4 links, 3 plans
Defaults(resource) ==
    LET n == CASE resource = "slides" -> 2
               [] resource = "gallery" -> 4
               [] resource = "social-links" -> 4
               [] resource = "pricing" -> 3
    IN [i \in 1..n |-> [id |-> "default", order_num |-> i]]

\* what res.json() gives the page: the array the server sent, or, when
\* something between the two answered in its place, an object or a text that
\* is no JSON
Deliveries == {"array", "object", "text"}

\* features.map(...) does not throw: the decoded features are an array
FeaturesRender(v) == v.type \in {"string", "array"} /\ DecodeFeatures(v).ok

\* renderSlides, renderGallery, renderSocialLinks, renderPricing run to their
\* end on these rows
Renders(resource, rows) ==
    resource = "pricing" => \A i \in 1..Len(rows) : FeaturesRender(rows[i].features)

\* a list that is not there yet; got remembers what the fetch ended with
NoList == [phase |-> "idle", slot |-> 0, from |-> "none", shown |-> <<>>,
           got |-> [delivery |-> "none", rows |-> <<>>]]

Rendered(from, rows) ==
    [phase |-> "done", slot |-> 0, from |-> from, shown |-> rows,
     got |-> [delivery |-> "none", rows |-> <<>>]]

\* a loader that renders whatever array it got
loadListBare(resource, delivery, rows) ==
    IF delivery = "array" THEN Rendered("server", rows)
    ELSE Rendered("default", Defaults(resource))

\* loadSlides, loadGallery, loadSocialLinks, loadPricing from the answer on:
\* the else branch renders the rows, anything thrown ends in the catch block
loadList(resource, delivery, rows) ==
    IF delivery = "text" THEN Rendered("default", Defaults(resource))
    ELSE IF delivery = "object" THEN Rendered("default", Defaults(resource))
    ELSE IF Len(rows) = 0 THEN Rendered("default", Defaults(resource))
    ELSE IF Renders(resource, rows) THEN Rendered("server", rows)
    ELSE Rendered("default", Defaults(resource))

\* the slider before renderSlides ran
NoSlider == [n |-> 0, currentSlide |-> 0, slides |-> <<>>, indicators |-> <<>>,
             event |-> [name |-> "none"], tick |-> 0]

\* a showSlide that adds the class and never takes it away
showSlideAdding(sl, index) ==
    [sl EXCEPT !.slides = [i \in 1..sl.n |-> sl.slides[i] \/ (i - 1 = index)],
               !.indicators = [i \in 1..sl.n |-> sl.indicators[i] \/ (i - 1 = index)],
               !.currentSlide = index]

\* showSlide(index): classList.toggle('active', i === index) on every slide
\* and every indicator (element i of the page is at i + 1 here)
showSlide(sl, index) ==
    [sl EXCEPT !.slides = [i \in 1..sl.n |-> (i - 1 = index)],
               !.indicators = [i \in 1..sl.n |-> (i - 1 = index)],
               !.currentSlide = index]

\* renderSlides(slides) and initSlider(): the first slide and the first
\* indicator are written with the class active
initSlider(rows) ==
    [n |-> Len(rows), currentSlide |-> 0, slides |-> [i \in 1..Len(rows) |-> (i = 1)],
     indicators |-> [i \in 1..Len(rows) |-> (i = 1)], event |-> [name |-> "init"],
     tick |-> 0]

\* the callback of setInterval
sliderTick(sl) ==
    [showSlide(sl, (sl.currentSlide + 1) % sl.n)
        EXCEPT !.event = [name |-> "tick"], !.tick = 1 - @]

\* the click listener of indicator k
indicatorClick(sl, k) ==
    [showSlide(sl, k) EXCEPT !.event = [name |-> "click", index |-> k], !.tick = 1 - @]

\* the submit button of the contact form as the page is served
NoForm == [label |-> "original", disabled |-> FALSE, originalText |-> "none",
           pending |-> FALSE, slot |-> 0, alerts |-> 0, event |-> "none"]

\* contactForm submit, up to the fetch: data holds name, phone and shift
contactFormSubmit(f, data) ==
    [form |-> [f EXCEPT !.originalText = f.label, !.label = "sending", !.disabled = TRUE,
                        !.pending = TRUE, !.event = "submit"],
     fetch |-> NewReq("POST /api/contact", "contact", 0, "none",
                      [name |-> data.name, phone |-> data.phone, shift |-> data.shift,
                       message |-> Undefined], NoToken, "call")]

\* a handler whose catch block leaves the handler
contactFormEndStuck(f, event) ==
    IF event = "answered"
    THEN [f EXCEPT !.label = f.originalText, !.disabled = FALSE, !.pending = FALSE,
                   !.slot = 0, !.alerts = 1, !.event = event]
    ELSE [f EXCEPT !.pending = FALSE, !.slot = 0, !.alerts = 1, !.event = event]

\* contactForm submit, from the end of the fetch on: an alert in the try
\* block or in the catch block, then the button is put back
contactFormEnd(f, event) ==
    [f EXCEPT !.label = f.originalText, !.disabled = FALSE, !.pending = FALSE,
              !.slot = 0, !.alerts = 1, !.event = event]

\* the page when the document is ready and nothing was loaded yet
HomeLoaded == [lists |-> [res \in HomeResources |-> NoList], slider |-> NoSlider,
               form |-> NoForm]

(***************************************************************************)
(* The data-backend client on its own: a process started with any bindings *)
(* makes calls to the store, one after the other.                          *)
(***************************************************************************)
ClientCalls ==
    <<Call("GET", "hero_slides", NoFilter, "order_num.asc", NoBody, "return=representation"),
     Call("POST", "hero_slides", NoFilter, "none", [title |-> "c"], "return=representation"),
     Call("POST", "site_settings", NoFilter, "none", [key |-> "site_name", value |-> "v2"],
          "return=representation"),
     Call("PATCH", "site_settings", [col |-> "key", val |-> "site_name"], "none",
          [value |-> "v2"], "return=minimal"),
     Call("DELETE", "hero_slides", [col |-> "id", val |-> 1], "none", NoBody,
          "return=representation")>>

\* one call of supabaseRequest(env, endpoint, options), from the url it builds
\* to the value it returns or the error it throws
Request ==
    /\ Len(wire) < MaxCalls
    /\ \E i \in DOMAIN ClientCalls, fault \in Faults :
          LET call == ClientCalls[i]
              f == Fetch(env, store, call, fault)
              out == supabaseRequestWith(env, store, call, fault)
          IN /\ store' = out.st
             /\ wire' = Append(wire, [url |-> UrlOf(env, call),
                                      apikey |-> HeadersOf(env, call).apikey,
                                      rejected |-> FetchRejected(f), res |-> f.res,
                                      thrown |-> out.thrown, message |-> out.message,
                                      value |-> out.value])
    /\ UNCHANGED <<req, shadow, changed, started, panel, env, admin, home>>

NextClient == Request

(***************************************************************************)
(* State after construction: a store as the setup script of README.md and  *)
(* later use can leave it (one admin, one setting, two slides, two contact *)
(* submissions A and B sent in that order, the other tables emptied).      *)
(***************************************************************************)
InitialRows ==
    [t \in Tables |->
        CASE t = "admin_users" -> <<[id |-> 1, username |-> "Drishti", password |-> "p1"]>>
          [] t = "site_settings" -> <<[id |-> 1, key |-> "site_name", value |-> "v1"]>>
          [] t = "hero_slides" -> <<[id |-> 1, title |-> "a", order_num |-> 1],
                                    [id |-> 2, title |-> "b", order_num |-> 2]>>
          [] t = "contact_submissions" ->
                <<[id |-> 1, created_at |-> 1, name |-> "A", phone |-> "ph", shift |-> "s",
                   message |-> ""],
                  [id |-> 2, created_at |-> 2, name |-> "B", phone |-> "ph", shift |-> "s",
                   message |-> "m"]>>
          [] OTHER -> <<>>]

NoChange == <<>>

InitialStore == [rows |-> InitialRows, seq |-> [t \in Tables |-> Len(InitialRows[t]) + 1]]

\* the server and the pages before anything happened
Fresh ==
    /\ store = InitialStore
    /\ req = [s \in Slots |-> Idle]
    /\ shadow = [slot |-> 0, r |-> Idle, st |-> store]
    /\ changed = [u \in Usernames |-> NoChange]
    /\ started = 0
    /\ panel = NoPanel
    /\ wire = <<>>
    /\ admin = AdminLoaded(NoItems)
    /\ home = HomeLoaded

\* a process started with both bindings set
Init == Fresh /\ env = Configured

\* a process started with whatever bindings its environment holds
InitClient == Fresh /\ env \in Envs

Strip(r) == [r EXCEPT !.token = NoToken]

\* the handler of a request that needs no outbound call answers at once
Begin(r) ==
    IF r.route = "POST /api/settings" /\ r.body = <<>> THEN SettingsNext(r) ELSE r

\* a request arrives in a free slot, as one of at most max requests
Arrive(s, r0, max) ==
    /\ ~InFlight(req[s])
    /\ started < max
    /\ LET r == [Begin(r0) EXCEPT
                    !.alone = \A t \in Slots \ {s} : ~InFlight(req[t]),
                    !.pre = store.rows]
       IN /\ req' = [t \in Slots |->
                        IF t = s THEN r
                        ELSE IF InFlight(req[t]) THEN [req[t] EXCEPT !.alone = FALSE]
                        ELSE req[t]]
          /\ shadow' = [slot |-> s, r |-> Strip(r), st |-> store]
    /\ started' = started + 1
    /\ UNCHANGED <<store, changed>>

\* a request from anywhere arrives
Receive(s, r0) ==
    /\ Arrive(s, r0, MaxStarted)
    /\ UNCHANGED clientVars

\* the password change a finished step made visible, if any
Changed(r) ==
    IF /\ r.route = "POST /api/admin/change-password"
       /\ r.pc = "done"
       /\ r.resp.status = 200
    THEN [changed EXCEPT ![r.body.username] =
             IF r.body.newPassword # r.body.currentPassword
             THEN <<r.body.currentPassword, r.body.newPassword>>
             ELSE NoChange]
    ELSE changed

\* one step of the handler in slot s: from its position up to the next await
Step(s, nows, Handler(_, _, _, _)) ==
    /\ \E fault \in Faults, now \in nows :
          LET out == Handler(req[s], store, fault, now)
              sh == Handler(Strip(req[s]), store, fault, now)
          IN /\ store' = out.st
             /\ req' = [req EXCEPT ![s] = out.r]
             /\ shadow' = [slot |-> s, r |-> sh.r, st |-> sh.st]
             /\ changed' = Changed(out.r)
    /\ UNCHANGED started
    /\ UNCHANGED clientVars

At(s, route, pcs) == req[s].route = route /\ req[s].pc \in pcs

ReceiveLogin(s) ==
    /\ ~InFlight(req[s])
    /\ \E b \in LoginBodies :
          Receive(s, NewReq("POST /api/admin/login", "none", 0, "none", b, NoToken, "call"))

ReceiveChangePassword(s) ==
    /\ ~InFlight(req[s])
    /\ \E b \in ChangePasswordBodies :
          Receive(s, NewReq("POST /api/admin/change-password", "none", 0, "none", b, NoToken,
                            "lookup"))

ReceiveSettingsGet(s, tokens) ==
    /\ ~InFlight(req[s])
    /\ \E t \in tokens :
          Receive(s, NewReq("GET /api/settings", "none", 0, "none", <<>>, t, "call"))

ReceiveSettingsPost(s, tokens) ==
    /\ ~InFlight(req[s])
    /\ \E b \in SettingsBodies, t \in tokens :
          Receive(s, NewReq("POST /api/settings", "none", 0, "none", b, t, "patch"))

ReceiveSettingsPut(s, tokens) ==
    /\ ~InFlight(req[s])
    /\ \E k \in Keys, v \in Values, t \in tokens :
          Receive(s, NewReq("PUT /api/settings/:key", "none", 0, k, [value |-> v], t, "probe"))

ReceiveList(s, tokens) ==
    /\ ~InFlight(req[s])
    /\ \E res \in ListResources, t \in tokens :
          Receive(s, NewReq("GET /api/:resource", res, 0, "none", <<>>, t, "call"))

ReceiveCreate(s, tokens) ==
    /\ ~InFlight(req[s])
    /\ \E res \in ContentResources, b \in ContentBodies, t \in tokens :
          Receive(s, NewReq("POST /api/:resource", res, 0, "none", b, t, "call"))

ReceiveUpdate(s, tokens) ==
    /\ ~InFlight(req[s])
    /\ \E res \in ContentResources, id \in Ids, b \in ContentBodies, t \in tokens :
          Receive(s, NewReq("PUT /api/:resource/:id", res, id, "none", b, t, "call"))

ReceiveDelete(s, tokens) ==
    /\ ~InFlight(req[s])
    /\ \E res \in ContentResources, id \in Ids, t \in tokens :
          Receive(s, NewReq("DELETE /api/:resource/:id", res, id, "none", <<>>, t, "call"))

ReceiveContact(s, tokens) ==
    /\ ~InFlight(req[s])
    /\ \E b \in ContactBodies, t \in tokens :
          Receive(s, NewReq("POST /api/contact", "contact", 0, "none", b, t, "call"))

DoLogin(s) ==
    /\ At(s, "POST /api/admin/login", {"call"})
    /\ Step(s, Times, Login)

DoChangePasswordLookup(s) ==
    /\ At(s, "POST /api/admin/change-password", {"lookup"})
    /\ Step(s, {1}, ChangePasswordLookup)

DoChangePasswordPatch(s) ==
    /\ At(s, "POST /api/admin/change-password", {"patch"})
    /\ Step(s, {1}, ChangePasswordPatch)

DoSettingsGet(s) ==
    /\ At(s, "GET /api/settings", {"call"})
    /\ Step(s, {1}, SettingsGet)

DoSettingsPostPatch(s) ==
    /\ At(s, "POST /api/settings", {"patch"})
    /\ Step(s, {1}, SettingsPostPatch)

DoSettingsPostInsert(s) ==
    /\ At(s, "POST /api/settings", {"insert"})
    /\ Step(s, {1}, SettingsPostInsert)

DoSettingsPutProbe(s) ==
    /\ At(s, "PUT /api/settings/:key", {"probe"})
    /\ Step(s, {1}, SettingsPutProbe)

DoSettingsPutWrite(s) ==
    /\ At(s, "PUT /api/settings/:key", {"patch", "insert"})
    /\ Step(s, {1}, SettingsPutWrite)

DoListRows(s) ==
    /\ At(s, "GET /api/:resource", {"call"})
    /\ Step(s, {1}, ListRows)

DoCreateRow(s) ==
    /\ At(s, "POST /api/:resource", {"call"})
    /\ Step(s, {1}, CreateRow)

DoUpdateRow(s) ==
    /\ At(s, "PUT /api/:resource/:id", {"call"})
    /\ Step(s, {1}, UpdateRow)

DoDeleteRow(s) ==
    /\ At(s, "DELETE /api/:resource/:id", {"call"})
    /\ Step(s, {1}, DeleteRow)

DoContactPost(s) ==
    /\ At(s, "POST /api/contact", {"call"})
    /\ Step(s, {1}, ContactPost)

(***************************************************************************)
(* The admin page at work: what the admin does, and what the script does   *)
(* when a fetch is answered or fails.  One request of the page is awaited  *)
(* at a time, and the server takes the next one when it is done with the   *)
(* one before.                                                             *)
(***************************************************************************)
\* the settings form always sends every field, in the order of the form
AdminSettings == {<<<<"site_name", v>>, <<"phone", w>>>> : v, w \in Values}
AdminResources == {"slides", "pricing"}
AdminItems == {[title |-> "c", order_num |-> 1]}
\* the id field of an item form: empty (0), a row that is there, a row that is not
AdminIds == {0, 1, 3}

\* fetch(...): the request leaves the page
AdminSend(out) ==
    /\ \E s \in {1} :
          /\ Arrive(s, out.fetch, MaxSent)
          /\ admin' = [out.page EXCEPT !.slot = s]
    /\ UNCHANGED besideAdmin

\* a handler that ends without a fetch
AdminStay(a) ==
    /\ admin' = a
    /\ UNCHANGED <<serverVars, besideAdmin>>

\* the page is loaded again; a fetch it awaited is forgotten
AdminReload ==
    /\ admin # AdminLoaded(admin.localStorage)
    /\ AdminStay(AdminLoaded(admin.localStorage))

AdminLogin ==
    /\ ~admin.dashboard /\ admin.pending = "none"
    /\ \E u \in Usernames, p \in Passwords : AdminSend(loginFormSubmit(admin, u, p))

AdminLogout ==
    /\ admin.dashboard
    /\ AdminStay(logout(admin))

AdminSaveSettings ==
    /\ admin.dashboard /\ admin.pending = "none"
    /\ \E settings \in AdminSettings : AdminSend(settingsFormSubmit(admin, settings))

AdminSaveItem ==
    /\ admin.dashboard /\ admin.pending = "none"
    /\ \E res \in AdminResources, id \in AdminIds, data \in AdminItems :
          AdminSend(saveItem(admin, res, id, data))

AdminDeleteItem ==
    /\ admin.dashboard /\ admin.pending = "none"
    /\ \E res \in AdminResources, id \in AdminIds \ {0} : AdminSend(deleteItem(admin, res, id))

AdminChangePassword ==
    /\ admin.dashboard /\ admin.pending = "none"
    /\ \E cur \in Passwords, new \in Passwords, confirm \in Passwords :
          LET out == passwordFormSubmit(admin, cur, new, confirm)
          IN IF out.fetch.route = "none" THEN AdminStay(out.page) ELSE AdminSend(out)

\* the awaited fetch was answered
Answered(op) == admin.pending = op /\ req[admin.slot].pc = "done"

AdminLoginAnswered ==
    /\ Answered("login")
    /\ AdminStay(loginFormAnswer(admin, req[admin.slot].resp))

AdminSettingsAnswered ==
    /\ Answered("settings")
    /\ AdminStay(settingsFormAnswer(admin, req[admin.slot].resp))

AdminSaveAnswered ==
    /\ Answered("save")
    /\ AdminStay(saveItemAnswer(admin, admin.event.resource, req[admin.slot].resp))

AdminDeleteAnswered ==
    /\ Answered("delete")
    /\ AdminStay(deleteItemAnswer(admin, admin.event.resource, req[admin.slot].resp))

AdminPasswordAnswered ==
    /\ Answered("password")
    /\ AdminStay(passwordFormAnswer(admin, req[admin.slot].resp))

\* the awaited fetch failed on the network, whether or not the request got
\* to the server: the catch block runs
AdminRejected ==
    /\ admin.pending # "none"
    /\ AdminStay(CASE admin.pending = "login" -> loginFormCatch(admin)
                   [] admin.pending = "settings" -> settingsFormCatch(admin)
                   [] admin.pending = "save" -> saveItemCatch(admin, admin.event.resource)
                   [] admin.pending = "delete" -> deleteItemCatch(admin, admin.event.resource)
                   [] admin.pending = "password" -> passwordFormCatch(admin))

\* setTimeout(() => toast.style.display = 'none', 3000)
AdminToastHidden ==
    /\ admin.toast # NoToast
    /\ AdminStay([admin EXCEPT !.toast = NoToast])

NextAdmin ==
    \/ AdminReload
    \/ AdminLogin
    \/ AdminLogout
    \/ AdminSaveSettings
    \/ AdminSaveItem
    \/ AdminDeleteItem
    \/ AdminChangePassword
    \/ AdminLoginAnswered
    \/ AdminSettingsAnswered
    \/ AdminSaveAnswered
    \/ AdminDeleteAnswered
    \/ AdminPasswordAnswered
    \/ AdminRejected
    \/ AdminToastHidden
    \/ \E s \in {1} :
          \/ DoLogin(s)
          \/ DoChangePasswordLookup(s)
          \/ DoChangePasswordPatch(s)
          \/ DoSettingsPostPatch(s)
          \/ DoSettingsPostInsert(s)
          \/ DoCreateRow(s)
          \/ DoUpdateRow(s)
          \/ DoDeleteRow(s)

(***************************************************************************)
(* The public page at work: its loads, the timer and the clicks on the     *)
(* slider, the contact form; next to it, other clients that add a pricing  *)
(* plan, add a slide or delete one.                                        *)
(***************************************************************************)
\* plans as any client of POST /api/pricing can send them: with features
\* that are the JSON text of a list, or a text that is no JSON
PricingBodies ==
    {[title |-> "p", features |-> [type |-> "string", val |-> JSONstringifyArray(<<<<"a">>>>)]],
     [title |-> "q", features |-> [type |-> "string", val |-> <<"a">>]]}

HomeContacts == {[name |-> "n", phone |-> "ph", shift |-> "s"]}

\* no fetch of the page waits for the response in slot s
SlotFree(s) ==
    /\ home.form.slot # s
    /\ \A res \in HomeResources : home.lists[res].slot # s

\* fetch('/api/slides') and its like, called when the document is ready
HomeLoad(res) ==
    /\ home.lists[res].phase = "idle"
    /\ \E s \in Slots :
          /\ SlotFree(s)
          /\ Arrive(s, NewReq("GET /api/:resource", res, 0, "none", <<>>, NoToken, "call"),
                    MaxSent)
          /\ home' = [home EXCEPT !.lists[res] = [@ EXCEPT !.phase = "awaiting", !.slot = s]]
    /\ UNCHANGED besideHome

\* the page after a list was rendered; rendering the slides starts the slider
HomeRendered(res, list, delivery, rows) ==
    /\ home' = [home EXCEPT !.lists[res] =
                                [list EXCEPT !.got = [delivery |-> delivery, rows |-> rows]],
                            !.slider = IF res = "slides" THEN initSlider(list.shown) ELSE @]
    /\ UNCHANGED <<serverVars, besideHome>>

\* the fetch of a list was answered
HomeLoadAnswered(res) ==
    /\ home.lists[res].phase = "awaiting"
    /\ req[home.lists[res].slot].pc = "done"
    /\ \E delivery \in Deliveries :
          HomeRendered(res, loadList(res, delivery, req[home.lists[res].slot].resp.data),
                       delivery,
                       IF delivery = "array" THEN req[home.lists[res].slot].resp.data
                       ELSE <<>>)

\* the fetch of a list failed on the network: the catch block runs
HomeLoadFailed(res) ==
    /\ home.lists[res].phase = "awaiting"
    /\ HomeRendered(res, Rendered("default", Defaults(res)), "rejected", <<>>)

\* five seconds went by
HomeTick ==
    /\ home.slider.n >= 1
    /\ home' = [home EXCEPT !.slider = sliderTick(@)]
    /\ UNCHANGED <<serverVars, besideHome>>

\* the visitor clicks an indicator
HomeClick ==
    /\ \E k \in 0..(home.slider.n - 1) : home' = [home EXCEPT !.slider = indicatorClick(@, k)]
    /\ UNCHANGED <<serverVars, besideHome>>

\* the visitor submits the contact form
HomeSubmit ==
    /\ ~home.form.disabled
    /\ \E data \in HomeContacts, s \in Slots :
          LET out == contactFormSubmit(home.form, data)
          IN /\ SlotFree(s)
             /\ Arrive(s, out.fetch, MaxSent)
             /\ home' = [home EXCEPT !.form = [out.form EXCEPT !.slot = s]]
    /\ UNCHANGED besideHome

\* the fetch of the form was answered, with a body that is JSON or is not
HomeSubmitAnswered ==
    /\ home.form.pending
    /\ req[home.form.slot].pc = "done"
    /\ \E event \in {"answered", "threw"} :
          home' = [home EXCEPT !.form = contactFormEnd(@, event)]
    /\ UNCHANGED <<serverVars, besideHome>>

\* the fetch of the form failed on the network
HomeSubmitFailed ==
    /\ home.form.pending
    /\ home' = [home EXCEPT !.form = contactFormEnd(@, "rejected")]
    /\ UNCHANGED <<serverVars, besideHome>>

ReceivePricing(s) ==
    /\ SlotFree(s)
    /\ \E b \in PricingBodies :
          Receive(s, NewReq("POST /api/:resource", "pricing", 0, "none", b, NoToken, "call"))

ReceiveDeleteSlide(s) ==
    /\ SlotFree(s)
    /\ \E id \in Ids :
          Receive(s, NewReq("DELETE /api/:resource/:id", "slides", id, "none", <<>>, NoToken,
                            "call"))

ReceiveSlide(s) ==
    /\ SlotFree(s)
    /\ Receive(s, NewReq("POST /api/:resource", "slides", 0, "none", [title |-> "c"], NoToken,
                         "call"))

\* the lists and the contact form
NextHome ==
    \/ \E res \in HomeResources :
          \/ HomeLoad(res)
          \/ HomeLoadAnswered(res)
          \/ HomeLoadFailed(res)
    \/ HomeSubmit
    \/ HomeSubmitAnswered
    \/ HomeSubmitFailed
    \/ \E s \in Slots :
          \/ ReceivePricing(s)
          \/ DoListRows(s)
          \/ DoCreateRow(s)
          \/ DoContactPost(s)

\* the hero slider, over the slides the page was given
NextSlider ==
    \/ HomeLoad("slides")
    \/ HomeLoadAnswered("slides")
    \/ HomeLoadFailed("slides")
    \/ HomeTick
    \/ HomeClick
    \/ \E s \in Slots :
          \/ ReceiveSlide(s)
          \/ ReceiveDeleteSlide(s)
          \/ DoListRows(s)
          \/ DoCreateRow(s)
          \/ DoDeleteRow(s)

NextAuth ==
    \E s \in Slots :
        \/ ReceiveLogin(s)
        \/ ReceiveChangePassword(s)
        \/ DoLogin(s)
        \/ DoChangePasswordLookup(s)
        \/ DoChangePasswordPatch(s)

NextSettings ==
    \E s \in Slots :
        \/ ReceiveSettingsGet(s, {NoToken})
        \/ ReceiveSettingsPost(s, {NoToken})
        \/ ReceiveSettingsPut(s, {NoToken})
        \/ DoSettingsGet(s)
        \/ DoSettingsPostPatch(s)
        \/ DoSettingsPostInsert(s)
        \/ DoSettingsPutProbe(s)
        \/ DoSettingsPutWrite(s)

NextContent ==
    \E s \in {1} :
        \/ ReceiveList(s, {NoToken})
        \/ ReceiveCreate(s, {NoToken})
        \/ ReceiveUpdate(s, {NoToken})
        \/ ReceiveDelete(s, {NoToken})
        \/ ReceiveContact(s, {NoToken})
        \/ DoListRows(s)
        \/ DoCreateRow(s)
        \/ DoUpdateRow(s)
        \/ DoDeleteRow(s)
        \/ DoContactPost(s)

\* every route but the settings writes, two requests at a time
NextPair ==
    \E s \in Slots :
        \/ ReceiveLogin(s)
        \/ ReceiveChangePassword(s)
        \/ ReceiveSettingsGet(s, {NoToken})
        \/ ReceiveList(s, {NoToken})
        \/ ReceiveCreate(s, {NoToken})
        \/ ReceiveUpdate(s, {NoToken})
        \/ ReceiveDelete(s, {NoToken})
        \/ ReceiveContact(s, {NoToken})
        \/ DoLogin(s)
        \/ DoChangePasswordLookup(s)
        \/ DoChangePasswordPatch(s)
        \/ DoSettingsGet(s)
        \/ DoListRows(s)
        \/ DoCreateRow(s)
        \/ DoUpdateRow(s)
        \/ DoDeleteRow(s)
        \/ DoContactPost(s)

\* every route, one request at a time, with or without a token
Next ==
    \E s \in {1} :
        \/ ReceiveLogin(s)
        \/ ReceiveChangePassword(s)
        \/ ReceiveSettingsGet(s, Tokens)
        \/ ReceiveSettingsPost(s, Tokens)
        \/ ReceiveSettingsPut(s, Tokens)
        \/ ReceiveList(s, Tokens)
        \/ ReceiveCreate(s, Tokens)
        \/ ReceiveUpdate(s, Tokens)
        \/ ReceiveDelete(s, Tokens)
        \/ ReceiveContact(s, Tokens)
        \/ DoLogin(s)
        \/ DoChangePasswordLookup(s)
        \/ DoChangePasswordPatch(s)
        \/ DoSettingsGet(s)
        \/ DoSettingsPostPatch(s)
        \/ DoSettingsPostInsert(s)
        \/ DoSettingsPutProbe(s)
        \/ DoSettingsPutWrite(s)
        \/ DoListRows(s)
        \/ DoCreateRow(s)
        \/ DoUpdateRow(s)
        \/ DoDeleteRow(s)
        \/ DoContactPost(s)

Spec == Init /\ [][Next]_vars
SpecAuth == Init /\ [][NextAuth]_vars
SpecSettings == Init /\ [][NextSettings]_vars
SpecContent == Init /\ [][NextContent]_vars
SpecPricing == Init /\ [][NextPricing]_vars
SpecAdmin == Init /\ [][NextAdmin]_vars
SpecHome == Init /\ [][NextHome]_vars
SpecSlider == Init /\ [][NextSlider]_vars
SpecClient == InitClient /\ [][NextClient]_vars
SpecPair == Init /\ [][NextPair]_vars

(***************************************************************************)
(* What a step shows of the request it served.                             *)
(***************************************************************************)
\* the handler in slot s issued an outbound call in this step
Stepped(s) == InFlight(req[s]) /\ req'[s].calls # req[s].calls

\* the handler in slot s answered in this step
Finishes(s) == Stepped(s) /\ req'[s].pc = "done"

LastCall(r) == r.calls[Len(r.calls)]

\* the admin rows a lookup for this username finds
AdminRows(st, username) ==
    SelectSeq2(st.rows["admin_users"], [col |-> "username", val |-> username])

\* the stored credentials accept this username and password
Accepts(st, username, password) ==
    /\ Len(AdminRows(st, username)) > 0
    /\ AdminRows(st, username)[1].password = password

IsLogin(r) == r.route = "POST /api/admin/login"
IsChangePassword(r) == r.route = "POST /api/admin/change-password"

(***************************************************************************)
(* Admin auth: C6, C7, C8.                                                 *)
(***************************************************************************)
\* C6: when the lookup succeeds, a login is answered 200 with success:true and
\* a non-empty token if and only if an admin row with the submitted username
\* exists and its stored password equals the submitted password; every other
\* login (absent user, mismatch, missing password) is answered 401 with
\* success:false and no token.
C6_LoginIffExactMatch ==
    [][\A s \in Slots :
          (Finishes(s) /\ IsLogin(req[s]) /\ ~LastCall(req'[s]).thrown) =>
             LET b == req[s].body
                 resp == req'[s].resp
             IN IF Accepts(store, b.username, b.password)
                THEN /\ resp.status = 200
                     /\ resp.data.success = TRUE
                     /\ "token" \in DOMAIN resp.data
                     /\ resp.data.token # NoToken
                ELSE /\ resp.status = 401
                     /\ resp.data.success = FALSE
                     /\ "token" \notin DOMAIN resp.data]_vars

\* a login with the stored password was answered 200 with a token
C6_Witness ==
    \E s \in Slots :
        /\ IsLogin(req[s])
        /\ req[s].pc = "done"
        /\ req[s].alone
        /\ Accepts([rows |-> req[s].pre], req[s].body.username, req[s].body.password)
        /\ req[s].resp.status = 200
        /\ req[s].resp.data.token # NoToken

\* the credentials a change-password request submits do not match the store
Rejected(st, b) == ~Accepts(st, b.username, b.currentPassword)

\* C7 as stated: a change-password with an unknown username or a wrong current
\* password is answered 401 with success:false, issues no PATCH and leaves
\* every stored password unchanged.
C7_Original ==
    [][\A s \in Slots :
          (Stepped(s) /\ IsChangePassword(req[s]) /\ req[s].pc = "lookup"
             /\ Rejected(store, req[s].body)) =>
             /\ req'[s].pc = "done"
             /\ req'[s].resp.status = 401
             /\ req'[s].resp.data.success = FALSE
             /\ \A i \in 1..Len(req'[s].calls) : req'[s].calls[i].method # "PATCH"
             /\ store'.rows["admin_users"] = store.rows["admin_users"]]_vars

\* C7, amended: such a request is answered 401 with success:false when the
\* lookup succeeds and 500 with success:false when the lookup fails; either way
\* it ends there, having issued no PATCH, and every stored password is
\* unchanged.
C7_RejectedWithoutPatch ==
    [][\A s \in Slots :
          (Stepped(s) /\ IsChangePassword(req[s]) /\ req[s].pc = "lookup"
             /\ Rejected(store, req[s].body)) =>
             /\ req'[s].pc = "done"
             /\ req'[s].resp.status = IF LastCall(req'[s]).thrown THEN 500 ELSE 401
             /\ req'[s].resp.data.success = FALSE
             /\ \A i \in 1..Len(req'[s].calls) : req'[s].calls[i].method # "PATCH"
             /\ store'.rows["admin_users"] = store.rows["admin_users"]]_vars

\* a change-password for an existing user with the wrong current password was
\* answered 401
C7_Witness ==
    \E s \in Slots :
        /\ IsChangePassword(req[s])
        /\ req[s].pc = "done"
        /\ req[s].alone
        /\ Len(AdminRows([rows |-> req[s].pre], req[s].body.username)) > 0
        /\ Rejected([rows |-> req[s].pre], req[s].body)
        /\ req[s].resp.status = 401
        /\ Len(req[s].calls) = 1

\* C8: after a change-password answered success:true for user u with a new
\* password different from the current one, and until the next successful
\* change-password for u, a login for u with the new password is answered 200
\* success:true and a login for u with the old password is answered 401
\* (logins that ran with no other request in flight, and whose lookup
\* succeeded).
C8_NewPasswordInForce ==
    [][\A s \in Slots :
          (Finishes(s) /\ IsLogin(req[s]) /\ ~LastCall(req'[s]).thrown
             /\ req[s].alone
             /\ changed[req[s].body.username] # NoChange) =>
             LET old == changed[req[s].body.username][1]
                 new == changed[req[s].body.username][2]
                 resp == req'[s].resp
             IN /\ req[s].body.password = new =>
                     resp.status = 200 /\ resp.data.success = TRUE
                /\ req[s].body.password = old => resp.status = 401]_vars

\* the same statement restricted to change-password requests that carried a
\* new password
NewPasswordGivenInForce ==
    [][\A s \in Slots :
          (Finishes(s) /\ IsLogin(req[s]) /\ ~LastCall(req'[s]).thrown
             /\ req[s].alone
             /\ changed[req[s].body.username] # NoChange
             /\ changed[req[s].body.username][2] # Undefined) =>
             LET old == changed[req[s].body.username][1]
                 new == changed[req[s].body.username][2]
                 resp == req'[s].resp
             IN /\ req[s].body.password = new =>
                     resp.status = 200 /\ resp.data.success = TRUE
                /\ req[s].body.password = old => resp.status = 401]_vars

(***************************************************************************)
(* Site settings: C2, C3, C4, C10.                                         *)
(***************************************************************************)
IsSettingsGet(r) == r.route = "GET /api/settings"
IsSettingsPost(r) == r.route = "POST /api/settings"
IsSettingsPut(r) == r.route = "PUT /api/settings/:key"

\* the rows of site_settings with this key
KeyRows(rows, k) == SelectSeq2(rows["site_settings"], [col |-> "key", val |-> k])

\* the store was available for every call of the request
NoFault(r) == \A i \in 1..Len(r.calls) : r.calls[i].status # 503

\* the request issued an insert
Inserted(r) ==
    \E i \in 1..Len(r.calls) :
        r.calls[i].method = "POST" /\ r.calls[i].table = "site_settings"

\* a POST /api/settings in slot s answers in this step, having run with no
\* other request in flight and with the store available throughout
SettingsPostAnswers(s) ==
    /\ Finishes(s)
    /\ IsSettingsPost(req[s])
    /\ req'[s].alone
    /\ NoFault(req'[s])

\* C2: with no concurrent requests and no row for key k in the store, a
\* POST /api/settings whose body contains k: v answers {success:true} and
\* leaves exactly one row with key k, holding v.
C2_NewKeyInserted ==
    [][\A s \in Slots :
          SettingsPostAnswers(s) =>
             \A j \in 1..Len(req[s].body) :
                LET k == req[s].body[j][1]
                    v == req[s].body[j][2]
                IN Len(KeyRows(req[s].pre, k)) = 0 =>
                      /\ req'[s].resp.status = 200
                      /\ req'[s].resp.data = [success |-> TRUE]
                      /\ Len(KeyRows(store'.rows, k)) = 1
                      /\ KeyRows(store'.rows, k)[1].value = v]_vars

\* C3: with no concurrent requests and a row for key k in the store, a
\* POST /api/settings whose body contains k: v answers {success:true}, sets the
\* row's value to v and leaves one row with key k; when every key of the body
\* was in the store, no insert is issued.
C3_ExistingKeyUpdated ==
    [][\A s \in Slots :
          SettingsPostAnswers(s) =>
             /\ \A j \in 1..Len(req[s].body) :
                   LET k == req[s].body[j][1]
                       v == req[s].body[j][2]
                   IN Len(KeyRows(req[s].pre, k)) > 0 =>
                         /\ req'[s].resp.status = 200
                         /\ req'[s].resp.data = [success |-> TRUE]
                         /\ Len(KeyRows(store'.rows, k)) = 1
                         /\ KeyRows(store'.rows, k)[1].value = v
             /\ (\A j \in 1..Len(req[s].body) :
                    Len(KeyRows(req[s].pre, req[s].body[j][1])) > 0)
                   => ~Inserted(req'[s])]_vars

\* the upstream call of a finished GET /api/settings failed
SettingsGetFailed(r) ==
    IsSettingsGet(r) /\ r.pc = "done" /\ LastCall(r).thrown

\* C4 as stated: when its upstream call fails, GET /api/settings does not
\* answer with an error status.
C4_Original ==
    \A s \in Slots : SettingsGetFailed(req[s]) => req[s].resp.status < 400

\* C4, amended: when its upstream call fails, GET /api/settings answers 500
\* with {error: message}, the message being that of the failure.
C4_FailureSurfaced ==
    \A s \in Slots :
        SettingsGetFailed(req[s]) =>
            /\ req[s].resp.status = 500
            /\ DOMAIN req[s].resp.data = {"error"}
            /\ req[s].resp.data.error =
                  <<"Supabase error: ", LastCall(req[s]).status, " - ", "unavailable">>

\* a GET /api/settings whose call failed was answered
C4_Witness ==
    \E s \in Slots : SettingsGetFailed(req[s]) /\ req[s].resp.status = 500

\* a settings write in slot s stands at its insert step
AtInsert(s) ==
    \/ IsSettingsPost(req[s]) /\ req[s].pc = "insert"
    \/ IsSettingsPut(req[s]) /\ req[s].pc = "insert"

\* C10: a settings write that has reached its insert step issues the insert
\* whatever the store holds by then, so two concurrent writes of a key that is
\* not in the store can both issue a POST insert for it.
C10_InsertNotRechecked ==
    [][\A s \in Slots :
          (AtInsert(s) /\ req'[s] # req[s] /\ req'[s].alone = req[s].alone) =>
             /\ Len(req'[s].calls) = Len(req[s].calls) + 1
             /\ LastCall(req'[s]).method = "POST"
             /\ LastCall(req'[s]).table = "site_settings"]_vars

\* a settings write of one key
SingleKeyWrite(r) == IsSettingsPut(r) \/ (IsSettingsPost(r) /\ Len(r.body) = 1)

\* the key a settings write is writing, or wrote last
WrittenKey(r) == IF IsSettingsPut(r) THEN r.key ELSE r.body[r.i][1]

\* two concurrent writes of the same key, absent when they arrived, have both
\* issued an insert
C10_Witness ==
    \E s, t \in Slots :
        /\ s # t
        /\ SingleKeyWrite(req[s])
        /\ SingleKeyWrite(req[t])
        /\ WrittenKey(req[s]) = WrittenKey(req[t])
        /\ Len(KeyRows(req[s].pre, WrittenKey(req[s]))) = 0
        /\ Len(KeyRows(req[t].pre, WrittenKey(req[s]))) = 0
        /\ ~req[s].alone /\ ~req[t].alone
        /\ Inserted(req[s]) /\ Inserted(req[t])

(***************************************************************************)
(* Lists and writes: C1, C5.                                               *)
(***************************************************************************)
IsList(r) == r.route = "GET /api/:resource"

\* C1: every list endpoint (slides, gallery, social-links, pricing, contact)
\* answers 200 whatever the upstream call did: the rows of the table, in the
\* endpoint's order, when the call succeeds ([] for an empty table), and []
\* when it fails.
C1_ListAlways200 ==
    \A s \in Slots :
        (IsList(req[s]) /\ req[s].pc = "done") =>
            /\ req[s].resp.status = 200
            /\ req[s].resp.kind = "rows"
            /\ IF LastCall(req[s]).thrown
               THEN req[s].resp.data = <<>>
               ELSE req[s].alone =>
                       req[s].resp.data = Ordered(req[s].pre[TableOf(req[s].resource)],
                                                  OrderOf(req[s].resource))

\* the list of a table that has rows was answered 200 with [] when the call
\* failed
C1_Witness ==
    \E s \in Slots :
        /\ IsList(req[s])
        /\ req[s].pc = "done"
        /\ LastCall(req[s]).thrown
        /\ Len(req[s].pre[TableOf(req[s].resource)]) > 0
        /\ req[s].resp.status = 200
        /\ req[s].resp.data = <<>>

IsContentWrite(r) ==
    r.route \in {"POST /api/:resource", "PUT /api/:resource/:id",
                 "DELETE /api/:resource/:id", "POST /api/contact"}

\* an upstream write of the request was refused or never reached the store
WriteFailed(r) ==
    \E i \in 1..Len(r.calls) : r.calls[i].method # "GET" /\ ~Ok(r.calls[i].status)

\* the message a 500 answer carries, under either of its two names
Message(resp) ==
    IF "error" \in DOMAIN resp.data THEN resp.data.error ELSE resp.data.message

\* the answer is a 500 that carries the message of the request's last call
Surfaced(r) ==
    /\ r.resp.status = 500
    /\ r.resp.kind \in {"error", "fail"}
    /\ Message(r.resp)[1] = "Supabase error: "
    /\ Message(r.resp)[2] = LastCall(r).status

Ran(s) == InFlight(req[s]) /\ req'[s] # req[s] /\ req'[s].alone = req[s].alone

\* C9: on every route but login and change-password, each step of a handler
\* gives the same request state, the same answer and the same store as the
\* same step on the request without its token; and a login, answered or not,
\* leaves the store as it was, so nothing of an issued token is kept.
C9_TokenNeverRead ==
    [][\A s \in Slots :
          Ran(s) =>
             /\ ~(IsLogin(req[s]) \/ IsChangePassword(req[s])) =>
                   /\ shadow'.slot = s
                   /\ shadow'.st = store'
                   /\ shadow'.r = Strip(req'[s])
             /\ IsLogin(req[s]) => store' = store]_vars

\* a delete that carried a token succeeded, and so did its replay without one
C9_Witness ==
    \E s \in Slots :
        /\ req[s].route = "DELETE /api/:resource/:id"
        /\ req[s].pc = "done"
        /\ req[s].token # NoToken
        /\ req[s].resp.status = 200
        /\ shadow.slot = s
        /\ shadow.r.token = NoToken
        /\ shadow.r.resp = req[s].resp
        /\ shadow.st = store
        /\ store.rows # req[s].pre

(***************************************************************************)
(* Content rows: C12, C13, C14, C15.                                       *)
(***************************************************************************)
IsCreate(r) == r.route = "POST /api/:resource"
IsUpdate(r) == r.route = "PUT /api/:resource/:id"
IsDelete(r) == r.route = "DELETE /api/:resource/:id"

\* the rows of a table with this id
IdRows(rows, table, id) == SelectSeq2(rows[table], [col |-> "id", val |-> id])

\* the request as it arrived, before its handler took a step
AsReceived(r) ==
    Begin([r EXCEPT !.pc = CASE IsChangePassword(r) -> "lookup"
                             [] IsSettingsPost(r) -> "patch"
                             [] IsSettingsPut(r) -> "probe"
                             [] OTHER -> "call",
                    !.i = 1, !.admins = <<>>, !.resp = NoResp, !.calls = <<>>])

\* C12: a PUT /api/<resource>/:id whose id matches no row is answered 200
\* {success:true} (the store being reachable) and changes nothing: no row is
\* created, every row is as it was.
C12_UpdateOfNoRowSucceeds ==
    [][\A s \in Slots :
          (Finishes(s) /\ IsUpdate(req[s]) /\ Ok(LastCall(req'[s]).status)
             /\ Len(IdRows(store.rows, TableOf(req[s].resource), req[s].id)) = 0) =>
             /\ req'[s].resp.status = 200
             /\ req'[s].resp.data = [success |-> TRUE]
             /\ store'.rows = store.rows]_vars

\* an update for an id that no row of the table has was answered success
C12_Witness ==
    \E s \in Slots :
        /\ IsUpdate(req[s])
        /\ req[s].pc = "done"
        /\ req[s].alone
        /\ Len(IdRows(req[s].pre, TableOf(req[s].resource), req[s].id)) = 0
        /\ req[s].resp.status = 200
        /\ store.rows = req[s].pre

\* C13: a PUT /api/<resource>/:id that was answered {success:true}, sent
\* again with the same body and no write in between, is answered
\* {success:true} again and leaves the store as the first call left it.
C13_UpdateIdempotent ==
    [][\A s \in Slots :
          (Finishes(s) /\ IsUpdate(req[s]) /\ req'[s].resp.status = 200) =>
             LET again == UpdateRow(AsReceived(req'[s]), store', "none", 1)
             IN /\ req'[s].resp.data = [success |-> TRUE]
                /\ again.r.resp = req'[s].resp
                /\ again.st = store']_vars

\* an update changed a row, and the same update sent again changes nothing more
C13_Witness ==
    \E s \in Slots :
        /\ IsUpdate(req[s])
        /\ req[s].pc = "done"
        /\ req[s].alone
        /\ req[s].resp.status = 200
        /\ store.rows # req[s].pre
        /\ UpdateRow(AsReceived(req[s]), store, "none", 1).st = store

\* the body is a row the table accepts
ValidRow(table, body) ==
    /\ DOMAIN body \subseteq Columns(table)
    /\ RequiredCols(table) \subseteq DOMAIN body

\* C14: a POST /api/<resource> with a valid row (the store being reachable) is
\* answered 200 with one row object, not an array, that has every submitted
\* field as submitted and a generated id no row of the table had; the store
\* gains that row and nothing else changes.
C14_CreateReturnsTheRow ==
    [][\A s \in Slots :
          (Finishes(s) /\ IsCreate(req[s]) /\ Ok(LastCall(req'[s]).status)
             /\ ValidRow(TableOf(req[s].resource), req[s].body)) =>
             LET t == TableOf(req[s].resource)
                 row == req'[s].resp.data
             IN /\ req'[s].resp.status = 200
                /\ req'[s].resp.kind = "row"
                /\ \A f \in DOMAIN req[s].body : row[f] = req[s].body[f]
                /\ Len(IdRows(store.rows, t, row.id)) = 0
                /\ row.id >= store.seq[t]
                /\ store'.rows = [store.rows EXCEPT ![t] = Append(@, row)]]_vars

\* a create of a valid row was answered with the stored row
C14_Witness ==
    \E s \in Slots :
        /\ IsCreate(req[s])
        /\ req[s].pc = "done"
        /\ req[s].alone
        /\ req[s].resp.status = 200
        /\ req[s].resp.kind = "row"
        /\ Len(store.rows[TableOf(req[s].resource)])
              = Len(req[s].pre[TableOf(req[s].resource)]) + 1

\* C15: a DELETE /api/<resource>/:id is answered like an update: 200
\* {success:true} when the store accepts the call, whether or not a row has
\* the id, and 500 with the error otherwise.  After a success no row of the
\* resource has the id, the other rows of the resource are as they were, in
\* their order, and every other table is unchanged; after a failure nothing
\* has changed.
C15_DeleteRemovesOnlyTheRow ==
    [][\A s \in Slots :
          (Finishes(s) /\ IsDelete(req[s])) =>
             LET t == TableOf(req[s].resource)
             IN IF Ok(LastCall(req'[s]).status)
                THEN /\ req'[s].resp.status = 200
                     /\ req'[s].resp.data = [success |-> TRUE]
                     /\ Len(IdRows(store'.rows, t, req[s].id)) = 0
                     /\ store'.rows =
                           [store.rows EXCEPT ![t] =
                               SelectSeq(@, LAMBDA row : row.id # req[s].id)]
                ELSE /\ req'[s].resp.status = 500
                     /\ DOMAIN req'[s].resp.data = {"error"}
                     /\ store'.rows = store.rows]_vars

\* a delete removed one of two rows and left the other
C15_Witness ==
    \E s \in Slots :
        /\ IsDelete(req[s])
        /\ req[s].pc = "done"
        /\ req[s].alone
        /\ req[s].resp.status = 200
        /\ Len(req[s].pre[TableOf(req[s].resource)]) = 2
        /\ Len(store.rows[TableOf(req[s].resource)]) = 1
        /\ Len(IdRows(store.rows, TableOf(req[s].resource), req[s].id)) = 0

(***************************************************************************)
(* Contact submissions: C16, C17, C18.                                     *)
(***************************************************************************)
IsContactPost(r) == r.route = "POST /api/contact"
IsContactList(r) == IsList(r) /\ r.resource = "contact"

Submissions(rows) == rows["contact_submissions"]

\* C16: whatever request is served on whatever route, every contact
\* submission in the store stays where it is with the same fields; the table
\* only grows at its end.
C16_ContactAppendOnly ==
    [][/\ Len(Submissions(store'.rows)) >= Len(Submissions(store.rows))
       /\ \A i \in 1..Len(Submissions(store.rows)) :
             Submissions(store'.rows)[i] = Submissions(store.rows)[i]]_vars

\* a delete on another table removed a row while the submissions stayed
C16_Witness ==
    \E s \in Slots :
        /\ IsDelete(req[s])
        /\ req[s].pc = "done"
        /\ req[s].resp.status = 200
        /\ store.rows # req[s].pre
        /\ Len(Submissions(store.rows)) >= 2
        /\ Submissions(store.rows) = Submissions(req[s].pre)

\* C17: GET /api/contact, when its call succeeds, answers with all the
\* submissions, latest created first: A, B, C sent in that order are listed
\* C, B, A.
C17_ContactNewestFirst ==
    \A s \in Slots :
        (IsContactList(req[s]) /\ req[s].pc = "done" /\ req[s].alone
           /\ ~LastCall(req[s]).thrown) =>
            LET data == req[s].resp.data
                was == Submissions(req[s].pre)
            IN /\ Len(data) = Len(was)
               /\ {data[i] : i \in 1..Len(data)} = {was[i] : i \in 1..Len(was)}
               /\ \A i, j \in 1..Len(data) :
                     i < j => data[i].created_at > data[j].created_at

\* after A and B a third submission was sent, and the list is third, B, A
C17_Witness ==
    \E s \in Slots :
        /\ IsContactList(req[s])
        /\ req[s].pc = "done"
        /\ Len(req[s].resp.data) = 3
        /\ req[s].resp.data[1].name = "n"
        /\ req[s].resp.data[2].name = "B"
        /\ req[s].resp.data[3].name = "A"

\* the row POST /api/contact is to store for a body
SubmissionOf(body, id) ==
    [id |-> id, created_at |-> id, name |-> body.name, phone |-> body.phone,
     shift |-> body.shift,
     message |-> IF body.message = Undefined THEN "" ELSE body.message]

\* C18: POST /api/contact stores a row made of name, phone, shift and message
\* as the body has them, message being the empty string when the body has
\* none; any other field of the body is dropped, so a body with name and
\* phone is never refused for a field it carries besides.
C18_ContactFieldsOnly ==
    [][\A s \in Slots :
          (Finishes(s) /\ IsContactPost(req[s])) =>
             LET b == req[s].body
                 status == LastCall(req'[s]).status
             IN /\ (b.name # Undefined /\ b.phone # Undefined) => status \in {201, 503}
                /\ Ok(status) =>
                      /\ Len(Submissions(store'.rows)) = Len(Submissions(store.rows)) + 1
                      /\ LET row == Submissions(store'.rows)[Len(Submissions(store'.rows))]
                         IN row = SubmissionOf(b, row.id)]_vars

\* a body with a fifth field and no message was stored as four fields with
\* an empty message
C18_Witness ==
    \E s \in Slots :
        /\ IsContactPost(req[s])
        /\ req[s].pc = "done"
        /\ req[s].alone
        /\ "extra" \in DOMAIN req[s].body
        /\ req[s].body.message = Undefined
        /\ req[s].resp.status = 200
        /\ Len(Submissions(store.rows)) = Len(Submissions(req[s].pre)) + 1
        /\ Submissions(store.rows)[Len(Submissions(store.rows))].message = ""

(***************************************************************************)
(* Order of the outbound calls of one request: C20.                        *)
(***************************************************************************)
\* C20: a handler issues its calls one at a time, each after the outcome of
\* the one before is known: every step adds one call to those the request
\* has issued, all of them ended.  In POST /api/settings the entries of the
\* body are written in their order: the PATCH for an entry, then its insert
\* if the PATCH threw, and the next entry only once that write has ended well.
C20_CallsOneAfterAnother ==
    [][\A s \in Slots :
          Ran(s) =>
             LET r == req[s]
                 q == req'[s]
                 new == LastCall(q)
             IN /\ Len(q.calls) = Len(r.calls) + 1
                /\ SubSeq(q.calls, 1, Len(r.calls)) = r.calls
                /\ IsSettingsPost(r) =>
                      /\ new.key = r.body[r.i][1]
                      /\ new.method = IF r.pc = "patch" THEN "PATCH" ELSE "POST"
                      /\ r.pc = "insert" =>
                            /\ LastCall(r).method = "PATCH"
                            /\ LastCall(r).key = new.key
                            /\ LastCall(r).thrown
                      /\ q.i \in {r.i, r.i + 1}
                      /\ q.i = r.i + 1 => (~new.thrown /\ q.pc = "patch")
                      /\ (q.i = r.i /\ q.pc = "insert") => (r.pc = "patch" /\ new.thrown)]_vars

\* a body of two entries was written entry by entry, update then insert each
C20_Witness ==
    \E s \in Slots :
        /\ IsSettingsPost(req[s])
        /\ req[s].pc = "done"
        /\ Len(req[s].body) = 2
        /\ Len(req[s].calls) = 4
        /\ [j \in 1..4 |-> req[s].calls[j].key]
              = <<req[s].body[1][1], req[s].body[1][1], req[s].body[2][1], req[s].body[2][1]>>
        /\ [j \in 1..4 |-> req[s].calls[j].method] = <<"PATCH", "POST", "PATCH", "POST">>

(***************************************************************************)
(* Pricing features: C19.                                                  *)
(***************************************************************************)
\* C19: the list of features the admin panel saves, encoded to a JSON string,
\* is shown on read as the same strings in the same order, whether the store
\* gives the column back as the JSON string or as an array; an array is shown
\* as it came.
C19_FeaturesRoundTrip ==
    panel.phase = "shown" =>
        /\ panel.shown.ok
        /\ panel.shown.val = panel.features
        /\ panel.stored.type = "array" => panel.shown.val = panel.stored.val

\* two features, one with a quote or a backslash in it, came back from a JSON
\* string as they were typed
C19_Witness ==
    /\ panel.phase = "shown"
    /\ panel.stored.type = "string"
    /\ Len(panel.features) = 2
    /\ \E i \in 1..2 : \E j \in 1..Len(panel.features[i]) :
          panel.features[i][j] \in {"\"", "\\"}
    /\ panel.shown.val = panel.features

(***************************************************************************)
(* Concurrent requests against serial ones: C11.                           *)
(***************************************************************************)
\* one step of the handler of a request, the store being reachable
StepAlone(r, st, now) ==
    CASE IsLogin(r) -> Login(r, st, "none", now)
      [] IsChangePassword(r) /\ r.pc = "lookup" -> ChangePasswordLookup(r, st, "none", now)
      [] IsChangePassword(r) /\ r.pc = "patch" -> ChangePasswordPatch(r, st, "none", now)
      [] IsSettingsGet(r) -> SettingsGet(r, st, "none", now)
      [] IsList(r) -> ListRows(r, st, "none", now)
      [] IsCreate(r) -> CreateRow(r, st, "none", now)
      [] IsUpdate(r) -> UpdateRow(r, st, "none", now)
      [] IsDelete(r) -> DeleteRow(r, st, "none", now)
      [] IsContactPost(r) -> ContactPost(r, st, "none", now)

\* the request served from arrival to answer with no other request in between
\* (no handler of these routes takes more than two steps)
RunAlone(r, st, now) ==
    LET one == StepAlone(AsReceived(r), st, now)
    IN IF one.r.pc = "done" THEN one ELSE StepAlone(one.r, one.st, now)

\* the time a login was answered at
NowOf(r) == IF IsLogin(r) /\ r.resp.status = 200 THEN r.resp.data.token[4] ELSE 1

SameAnswer(r, alone) ==
    /\ alone.pc = "done"
    /\ r.resp.status = alone.resp.status
    /\ r.resp.kind = alone.resp.kind
    /\ r.resp.data = alone.resp.data

\* a, then b, served one after the other from the initial store give the
\* answers and the store at hand
SerialOrder(a, b) ==
    LET first == RunAlone(a, InitialStore, NowOf(a))
        second == RunAlone(b, first.st, NowOf(b))
    IN /\ SameAnswer(a, first.r)
       /\ SameAnswer(b, second.r)
       /\ store = second.st

\* the first two requests were served in different slots, with the store
\* reachable, and both are answered
PairAnswered ==
    /\ started = 2
    /\ \A s \in Slots : req[s].pc = "done" /\ NoFault(req[s])

\* C11 as stated: two concurrent requests on any routes but the settings
\* writes, change-password included, end with the answers and the store of
\* one of their two serial orders.
C11_Original ==
    PairAnswered => (SerialOrder(req[1], req[2]) \/ SerialOrder(req[2], req[1]))

\* C11, amended: two concurrent requests on routes other than the settings
\* writes, not both of them change-password requests, end with the answers
\* and the store of one of their two serial orders.
C11_SerialUnlessBothChangePassword ==
    (PairAnswered /\ ~(IsChangePassword(req[1]) /\ IsChangePassword(req[2])))
        => (SerialOrder(req[1], req[2]) \/ SerialOrder(req[2], req[1]))

\* a create and a delete on the same table overlapped and both succeeded
C11_Witness ==
    /\ PairAnswered
    /\ ~req[1].alone /\ ~req[2].alone
    /\ IsCreate(req[1]) /\ IsDelete(req[2])
    /\ req[1].resource = req[2].resource
    /\ req[1].resp.status = 200 /\ req[2].resp.status = 200
    /\ store.rows # InitialRows


(***************************************************************************)
(* Claims about the data-backend client and the bindings of the process.   *)
(***************************************************************************)
\* a call that was made with a binding absent
Unconfigured(w) == w.url[1] = Undefined \/ w.apikey = Undefined

\* C21: when SUPABASE_URL or SUPABASE_ANON_KEY is absent the process fails
\* fast: the client never attempts a call whose base URL or whose credential
\* is missing.
C21_NoCallWithoutBindings ==
    \A i \in 1..Len(wire) : ~Unconfigured(wire[i])

\* the error supabaseRequest throws for a response that is not ok
UpstreamError(res) == <<"Supabase error: ", res.status, " - ", res.text>>

\* C22: for every response the client received, a status outside 200..299
\* makes it throw an error that carries the status and the raw response
\* text, and it returns a value only for a status inside 200..299, that
\* value being the parsed body of the response.
C22_ThrowsUnlessOk ==
    \A i \in 1..Len(wire) :
        LET w == wire[i]
        IN ~w.rejected =>
              /\ ~Ok(w.res.status) => w.thrown /\ w.message = UpstreamError(w.res)
              /\ ~w.thrown => Ok(w.res.status) /\ w.res.hasBody /\ w.value = w.res.body

\* the client met a refused insert (409), an unavailable store (503) and a
\* successful call that returned rows
C22_Witness ==
    /\ \E i \in 1..Len(wire) :
          wire[i].res.status = 409 /\ wire[i].thrown
          /\ wire[i].message = <<"Supabase error: ", 409, " - ", "duplicate key value">>
    /\ \E i \in 1..Len(wire) : wire[i].res.status = 503 /\ wire[i].thrown
    /\ \E i \in 1..Len(wire) :
          ~wire[i].thrown /\ wire[i].res.status = 201 /\ Len(wire[i].value) = 1


(***************************************************************************)
(* Claims about the admin page.                                            *)
(***************************************************************************)
\* the last handler that ran was a save or a delete that came to its end
SaveOrDeleteEnded == admin.event.name \in {"settings", "save", "delete"}

\* the server reported success for it
ReportedSuccess == admin.event.how = "answered" /\ Ok(admin.event.status)

\* C23: every save or delete of the admin panel that failed, a request the
\* server answered with 500 included, shows an error toast, and a success
\* toast is shown only when the server reported success.
C23_FailuresToasted ==
    SaveOrDeleteEnded /\ admin.toast # NoToast =>
        (admin.toast.isError <=> ~ReportedSuccess)

\* a login attempt comes to its end in this step
LoginEnds == admin.pending = "login" /\ admin'.event.name = "login"

\* ... having received success:true
LoginSucceeds ==
    /\ admin'.event.how = "answered"
    /\ req[admin.slot].resp.status = 200
    /\ req[admin.slot].resp.data.success

\* logout() runs in this step
LogsOut == admin.dashboard /\ admin'.event.name = "logout"

\* C27: the dashboard is displayed only if localStorage holds an adminToken;
\* a login attempt that does not receive success:true leaves adminToken and
\* adminUser as they were and shows the login error; logout removes both,
\* and the page loaded after it shows the login form.
C27_DashboardOnlyWithToken ==
    /\ [](admin.dashboard => admin.localStorage.adminToken # Null)
    /\ [][/\ LoginEnds /\ ~LoginSucceeds =>
                /\ admin'.localStorage = admin.localStorage
                /\ admin'.loginError
                /\ admin'.dashboard = admin.dashboard
          /\ LogsOut =>
                /\ admin'.localStorage = NoItems
                /\ ~admin'.dashboard
                /\ ~AdminLoaded(admin'.localStorage).dashboard]_vars

\* after a refused login, a login that let the admin in and a logout, the
\* page shows the login form and no item is left
C27_Witness ==
    /\ admin.event.name = "logout"
    /\ ~admin.dashboard
    /\ admin.localStorage = NoItems
    /\ started = 2
    /\ req[1].route = "POST /api/admin/login" /\ req[1].resp.status = 200

\* the password form was submitted in this step
PasswordSubmitted == admin'.event.name = "passwordForm" /\ admin'.tick # admin.tick

\* C30: when the new password and its confirmation differ, the password form
\* sends no request and shows an error toast; it sends a request only when
\* the two are equal, and that request carries the username stored at login.
C30_NoRequestUnlessConfirmed ==
    [][PasswordSubmitted =>
          IF admin'.event.newPassword # admin'.event.confirmPassword
          THEN /\ started' = started /\ req' = req
               /\ admin'.pending = "none"
               /\ admin'.toast = [message |-> "Passwords do not match!", isError |-> TRUE]
          ELSE /\ started' = started + 1
               /\ admin'.pending = "password"
               /\ req'[admin'.slot].route = "POST /api/admin/change-password"
               /\ req'[admin'.slot].body.username = admin.loggedInAs
               /\ admin.loggedInAs = admin.localStorage.adminUser
               /\ admin.loggedInAs \in Usernames]_vars

\* logged in as Drishti, the admin typed two different passwords: the toast
\* is there and the login is the only request the server ever got
C30_Witness ==
    /\ admin.event.name = "passwordForm"
    /\ admin.event.newPassword # admin.event.confirmPassword
    /\ admin.toast = [message |-> "Passwords do not match!", isError |-> TRUE]
    /\ admin.loggedInAs = "Drishti"
    /\ started = 1 /\ req[1].route = "POST /api/admin/login"


(***************************************************************************)
(* Claims about the public page.                                           *)
(***************************************************************************)
Loaded(res) == home.lists[res].phase = "done"

\* the fetch gave the page a list with rows in it
GotRows(res) ==
    home.lists[res].got.delivery = "array" /\ home.lists[res].got.rows # <<>>

\* a plan among the rows has features that decode to no list
Undecodable(res) ==
    /\ res = "pricing"
    /\ \E i \in 1..Len(home.lists[res].got.rows) :
          LET v == home.lists[res].got.rows[i].features
          IN v.type \notin {"string", "array"} \/ ~DecodeFeatures(v).ok

\* C24 as stated: once the load of slides, gallery, pricing or social links
\* has completed the rendered list is never empty; the defaults are rendered
\* when the fetch failed, the response is no list or the list is empty, and
\* otherwise exactly the rows the server returned are rendered.
C24_Original ==
    \A res \in HomeResources :
        Loaded(res) =>
            /\ home.lists[res].shown # <<>>
            /\ home.lists[res].shown =
                  IF GotRows(res) THEN home.lists[res].got.rows ELSE Defaults(res)

\* C24, amended: the rendered list is never empty; the defaults are rendered
\* when the fetch failed, the response is no list, the list is empty, or
\* (pricing) a returned plan has features that decode to no list, and
\* otherwise exactly the rows the server returned are rendered.
C24_DefaultsUnlessRenderedRows ==
    \A res \in HomeResources :
        Loaded(res) =>
            /\ home.lists[res].shown # <<>>
            /\ home.lists[res].shown =
                  IF GotRows(res) /\ ~Undecodable(res)
                  THEN home.lists[res].got.rows ELSE Defaults(res)

\* the server returned a plan whose features are no JSON, and the page shows
\* the three default plans; the slides it shows are the rows of the server
C24_Witness ==
    /\ Loaded("pricing") /\ GotRows("pricing") /\ Undecodable("pricing")
    /\ home.lists["pricing"].shown = Defaults("pricing")
    /\ Loaded("slides") /\ GotRows("slides")
    /\ home.lists["slides"].shown = store.rows["hero_slides"]

\* exactly one slide and one indicator are active, those at the current index
OneActive(sl) ==
    /\ sl.currentSlide \in 0..(sl.n - 1)
    /\ \A i \in 1..sl.n : sl.slides[i] <=> (i - 1 = sl.currentSlide)
    /\ \A i \in 1..sl.n : sl.indicators[i] <=> (i - 1 = sl.currentSlide)

\* C28: with n >= 1 rendered slides the current index is in 0..n-1 and
\* exactly one slide and one indicator, both at the current index, are
\* active; a timer tick moves the index from i to (i+1) mod n, a click on
\* indicator k sets it to k.
C28_SliderOneActive ==
    /\ [](home.slider.n >= 1 =>
             /\ home.slider.n = Len(home.lists["slides"].shown)
             /\ OneActive(home.slider))
    /\ [][home'.slider.tick # home.slider.tick =>
             /\ home'.slider.n = home.slider.n
             /\ home'.slider.event.name = "tick" =>
                   home'.slider.currentSlide = (home.slider.currentSlide + 1) % home.slider.n
             /\ home'.slider.event.name = "click" =>
                   home'.slider.currentSlide = home'.slider.event.index]_vars

\* three slides, and the timer took the slider from the last one to the first
C28_Witness ==
    /\ home.slider.n = 3
    /\ home.slider.event.name = "tick"
    /\ home.slider.currentSlide = 0
    /\ home.slider.slides = <<TRUE, FALSE, FALSE>>

\* C29: the submit button of the contact form is disabled from the start of
\* a submission until its request has completed, and is enabled again with
\* its original label once it has, whatever the request ended with.
C29_ButtonBackAfterSubmit ==
    /\ home.form.pending => home.form.disabled /\ home.form.label = "sending"
    /\ ~home.form.pending => ~home.form.disabled /\ home.form.label = "original"

\* the server answered the submission with 500, the visitor saw the alert,
\* and the button is back
C29_Witness ==
    /\ home.form.event = "answered"
    /\ home.form.alerts = 1
    /\ ~home.form.disabled /\ home.form.label = "original"
    /\ \E s \in Slots : req[s].route = "POST /api/contact" /\ req[s].resp.status = 500


(***************************************************************************)
(* Claims about the settings routes, continued.                            *)
(***************************************************************************)
\* answers the store could give to the GET of all settings, rows that share
\* a key included
SettingsAnswers == UNION {[1..n -> [key : Keys, value : Values]] : n \in 0..MaxRows}

\* obj has one entry per key of the rows and no other, each with the value
\* of the last row of its key
FoldOf(obj, rows) ==
    /\ DOMAIN obj = {rows[j].key : j \in 1..Len(rows)}
    /\ \A j \in 1..Len(rows) :
          (\A m \in (j + 1)..Len(rows) : rows[m].key # rows[j].key)
              => obj[rows[j].key] = rows[j].value

\* C25: GET /api/settings answers with one mapping that has exactly one entry
\* per distinct key among the settings rows and no other, each entry holding
\* the value of the last row with that key in the upstream order; no rows
\* give the empty object.  (When the call to the store fails there are no
\* rows to fold: that case is C4.)
C25_SettingsFolded ==
    /\ [](\A rows \in SettingsAnswers : FoldOf(settingsObj(rows), rows))
    /\ [](DOMAIN settingsObj(<<>>) = {})
    /\ [][\A s \in Slots :
            (Finishes(s) /\ IsSettingsGet(req[s]) /\ ~LastCall(req'[s]).thrown) =>
                /\ req'[s].resp.status = 200
                /\ FoldOf(req'[s].resp.data, store.rows["site_settings"])]_vars

\* a GET /api/settings answered with the two keys the table holds by then
C25_Witness ==
    \E s \in Slots :
        /\ IsSettingsGet(req[s]) /\ req[s].pc = "done" /\ req[s].resp.status = 200
        /\ DOMAIN req[s].resp.data = {"site_name", "phone"}
        /\ Len(store.rows["site_settings"]) = 2


\* the fallback insert of a POST /api/settings in slot s fails in this step,
\* after the update of the same key failed
WriteOfKeyFails(s) ==
    /\ Stepped(s) /\ IsSettingsPost(req[s]) /\ req[s].pc = "insert"
    /\ LastCall(req'[s]).thrown

\* the keys of the body up to entry i
KeysUpTo(body, i) == {body[m][1] : m \in 1..i}

\* C26: POST /api/settings is not atomic across the keys of its body: when
\* the update and the fallback insert of one key both fail, the handler
\* answers 500 with success:false, the rows of the other keys stay as the
\* writes before left them (a request that ran alone finds the values it
\* wrote for the keys before), and no call is made for the keys after it.
C26_StopsAtFailedKey ==
    [][\A s \in Slots :
          WriteOfKeyFails(s) =>
              LET r == req'[s]
              IN /\ r.pc = "done" /\ r.resp.status = 500
                 /\ r.resp.data.success = FALSE
                 /\ \A k \in Keys \ {r.body[r.i][1]} :
                       KeyRows(store'.rows, k) = KeyRows(store.rows, k)
                 /\ r.alone =>
                       \A m \in 1..(r.i - 1) :
                           /\ Len(KeyRows(store'.rows, r.body[m][1])) = 1
                           /\ KeyRows(store'.rows, r.body[m][1])[1].value = r.body[m][2]
                 /\ \A j \in 1..Len(r.calls) : r.calls[j].key \in KeysUpTo(r.body, r.i)]_vars

\* a request for phone and site_name that was answered 500 at site_name: the
\* row it wrote for phone is there
C26_Witness ==
    \E s \in Slots :
        /\ IsSettingsPost(req[s]) /\ req[s].pc = "done" /\ req[s].resp.status = 500
        /\ req[s].alone /\ req[s].i = 2
        /\ req[s].body[1][1] = "phone" /\ KeyRows(req[s].pre, "phone") = <<>>
        /\ Len(KeyRows(store.rows, "phone")) = 1
        /\ KeyRows(store.rows, "phone")[1].value = req[s].body[1][2]

====
